---- MODULE Spec2Model ----
(***************************************************************************)
(* Teacher platform: the CSV roster transcoder of utils/csvUtils.          *)
(*                                                                         *)
(* A JavaScript string is modelled as a sequence of one-character strings, *)
(* an optional (possibly undefined) value as a sequence of length 0 or 1.  *)
(*                                                                         *)
(*   SpecRow      the field splitter parseCSVRow, one loop iteration per   *)
(*                step, over every short line of a small alphabet          *)
(*   SpecStudent  parseStudentRow applied to one split row                 *)
(*   Spec         parseCSVText, one action per phase and per data line     *)
(***************************************************************************)
EXTENDS Integers, Sequences, FiniteSets, TLC

VARIABLES
    \* parseCSVRow (the field splitter)
    row,         \* the line being split
    j,           \* the loop index i of parseCSVRow (0-based, as in the source)
    current,     \* the field being accumulated
    inQuotes,    \* quoted mode
    result,      \* the fields emitted so far
    rowPc,       \* "idle" | "loop" | "done"
    \* parseStudentRow
    rowData,     \* the split row handed to parseStudentRow
    rowHeaderMap,\* the header map handed to parseStudentRow
    studentOut,  \* what parseStudentRow returned or threw
    studentPc,   \* "idle" | "call" | "done"
    \* parseCSVText
    layout,      \* how the input text was laid out (columns of the header)
    cells,       \* the input's data lines, as cells per column name
    text,        \* the input text
    lines,       \* the non-empty lines
    headerMap,   \* header name -> column index
    i,           \* the loop index i of parseCSVText
    data,        \* entries produced so far
    errors,      \* row errors so far
    invalidRows, \* row numbers tagged invalid so far
    ret,         \* the returned ImportResult
    pc,          \* "idle" | "start" | "header" | "rows" | "return" | "done"
    \* exportStudentsToCSV and generateSampleCSV
    exportStudents, \* the students handed to exportStudentsToCSV
    alertMsg,    \* the message of alert(), if one was shown
    csvContent,  \* the csvContent built, if one was
    download,    \* the file the browser wrote, if link.click() ran
    exportPc,    \* "idle" | "call" | "done"
    \* parseCSVFile
    file,        \* the File handed to parseCSVFile, if one was chosen
    reader,      \* the FileReader: readyState, result, error
    filePc,      \* "idle" | "reading" | "parsing" | "settled"
    promise,     \* the returned promise: pending, fulfilled or rejected
    settles,     \* the number of calls of resolve
    \* AuthService (lib/auth)
    session,     \* the session of the supabase client, if there is one
    refreshPromise, \* AuthService.refreshPromise: null, or the promise's number
    promises,    \* the promises performTokenRefresh returned: state, token
    requests,    \* the refreshSession requests that are outstanding
    callers,     \* the calls of getValidAccessToken: pc, promise awaited, result
    signOuts,    \* the calls of signOut: "idle" | "remote" | "done"
    \* StudentsProvider (contexts/StudentsContext) and the Students page
    user,        \* useAuth().user: the signed-in user's id, if there is one
    store,       \* the rows of the remote table 'students', oldest first
    students,    \* the state students
    loading,     \* the state loading
    error,       \* the state error
    refreshTimeoutId, \* the state refreshTimeoutId (0 is null)
    timers,      \* the timeouts that are pending, each with the user of its closure
    ops,         \* the calls of the context's async functions
    today,       \* new Date().toISOString().split('T')[0], as a day number
    userChanges, \* how often the signed-in user has changed
    mounted,     \* the provider is mounted
    rendered,    \* the refreshTimeoutId of the last render, which its effect holds
    \* AuthService.makeAuthenticatedRequest
    apiCalls,    \* the calls of makeAuthenticatedRequest, one per caller
    fetches      \* the requests handed to fetch

rowVars == <<row, j, current, inQuotes, result, rowPc>>
studentVars == <<rowData, rowHeaderMap, studentOut, studentPc>>
textVars == <<layout, cells, text, lines, headerMap, i, data, errors, invalidRows, ret, pc>>
exportVars == <<exportStudents, alertMsg, csvContent, download, exportPc>>
fileVars == <<file, reader, filePc, promise, settles>>
authVars == <<session, refreshPromise, promises, requests, callers, signOuts>>
ctxVars == <<user, store, students, loading, error, refreshTimeoutId, timers, ops,
             today, userChanges, mounted, rendered>>
reqVars == <<apiCalls, fetches>>
vars == <<rowVars, studentVars, textVars, exportVars, fileVars, authVars, ctxVars, reqVars>>

----------------------------------------------------------------------------
(* Characters and strings                                                  *)

QUOTE == "\""
COMMA == ","
NEWLINE == "\n"
TAB == "\t"
SPACE == " "

None == <<>>
Some(v) == <<v>>

\* String.prototype.trim's white space, as far as the inputs contain it
IsWhiteSpace(c) == c \in {SPACE, TAB, "\r", NEWLINE}

RECURSIVE TrimLeft(_)
TrimLeft(s) ==
    IF s # <<>> /\ IsWhiteSpace(Head(s)) THEN TrimLeft(Tail(s)) ELSE s

RECURSIVE TrimRight(_)
TrimRight(s) ==
    IF s # <<>> /\ IsWhiteSpace(s[Len(s)])
    THEN TrimRight(SubSeq(s, 1, Len(s) - 1))
    ELSE s

Trim(s) == TrimRight(TrimLeft(s))

UpperChars == <<"A","B","C","D","E","F","G","H","I","J","K","L","M",
                "N","O","P","Q","R","S","T","U","V","W","X","Y","Z">>
LowerChars == <<"a","b","c","d","e","f","g","h","i","j","k","l","m",
                "n","o","p","q","r","s","t","u","v","w","x","y","z">>

ToLowerChar(c) ==
    IF \E k \in 1..Len(UpperChars) : UpperChars[k] = c
    THEN LowerChars[CHOOSE k \in 1..Len(UpperChars) : UpperChars[k] = c]
    ELSE c

ToLowerCase(s) == [k \in 1..Len(s) |-> ToLowerChar(s[k])]

\* the character of a 0-based index, as row[i] in the source; None past the end
CharAt(s, n) == IF n >= 0 /\ n < Len(s) THEN Some(s[n + 1]) ELSE None

----------------------------------------------------------------------------
(* parseCSVRow                                                             *)

\* A comma ends the field even in quoted mode.
MutStepSplitsInQuotes(r, st) ==
    LET char == r[st.j + 1] IN
    IF char = QUOTE
    THEN IF st.inQuotes /\ CharAt(r, st.j + 1) = Some(QUOTE)
         THEN [st EXCEPT !.current = Append(@, QUOTE), !.j = @ + 2]
         ELSE [st EXCEPT !.inQuotes = ~@, !.j = @ + 1]
    ELSE IF char = COMMA
    THEN [st EXCEPT !.result = Append(@, Trim(st.current)), !.current = <<>>,
                    !.j = @ + 1]
    ELSE [st EXCEPT !.current = Append(@, char), !.j = @ + 1]

\* The doubled quote is not looked for: every quote toggles.
MutStepNoEscape(r, st) ==
    LET char == r[st.j + 1] IN
    IF char = QUOTE
    THEN [st EXCEPT !.inQuotes = ~@, !.j = @ + 1]
    ELSE IF char = COMMA /\ ~st.inQuotes
    THEN [st EXCEPT !.result = Append(@, Trim(st.current)), !.current = <<>>,
                    !.j = @ + 1]
    ELSE [st EXCEPT !.current = Append(@, char), !.j = @ + 1]

\* One iteration of the loop over the characters, with the loop's i++.
ParseCSVRowStep(r, st) ==
    LET char == r[st.j + 1] IN
    IF char = QUOTE
    THEN IF st.inQuotes /\ CharAt(r, st.j + 1) = Some(QUOTE)
         THEN [st EXCEPT !.current = Append(@, QUOTE), !.j = @ + 2]
         ELSE [st EXCEPT !.inQuotes = ~@, !.j = @ + 1]
    ELSE IF char = COMMA /\ ~st.inQuotes
    THEN [st EXCEPT !.result = Append(@, Trim(st.current)), !.current = <<>>,
                    !.j = @ + 1]
    ELSE [st EXCEPT !.current = Append(@, char), !.j = @ + 1]

ParseCSVRowInit == [j |-> 0, current |-> <<>>, inQuotes |-> FALSE, result |-> <<>>]

\* "Add the last field"
ParseCSVRowLast(st) == Append(st.result, Trim(st.current))

\* at most n iterations of the loop, which ends when i reaches row.length
RECURSIVE ParseCSVRowLoop(_, _, _)
ParseCSVRowLoop(r, st, n) ==
    IF n = 0 \/ st.j >= Len(r) THEN st
    ELSE IF n = 1 THEN ParseCSVRowStep(r, st)
    ELSE ParseCSVRowLoop(r, ParseCSVRowLoop(r, st, n \div 2), n - (n \div 2))

ParseCSVRow(r) == ParseCSVRowLast(ParseCSVRowLoop(r, ParseCSVRowInit, Len(r)))

----------------------------------------------------------------------------
(* Idle values of the variables a specification does not use               *)

RowIdle ==
    /\ row = <<>> /\ j = 0 /\ current = <<>> /\ inQuotes = FALSE
    /\ result = <<>> /\ rowPc = "idle"

StudentIdle ==
    /\ rowData = <<>> /\ rowHeaderMap = <<>> /\ studentOut = <<>>
    /\ studentPc = "idle"

TextIdle ==
    /\ layout = <<>> /\ cells = <<>> /\ text = <<>> /\ lines = <<>>
    /\ headerMap = <<>> /\ i = 0 /\ data = <<>> /\ errors = <<>>
    /\ invalidRows = <<>> /\ ret = <<>> /\ pc = "idle"

ExportIdle ==
    /\ exportStudents = <<>> /\ alertMsg = <<>> /\ csvContent = <<>>
    /\ download = <<>> /\ exportPc = "idle"

FileIdle ==
    /\ file = <<>> /\ reader = <<>> /\ filePc = "idle" /\ promise = <<>>
    /\ settles = 0

AuthIdle ==
    /\ session = <<>> /\ refreshPromise = <<>> /\ promises = <<>>
    /\ requests = {} /\ callers = <<>> /\ signOuts = <<>>

ReqIdle == apiCalls = <<>> /\ fetches = {}

CtxIdle ==
    /\ user = <<>> /\ store = <<>> /\ students = <<>> /\ loading = FALSE
    /\ error = <<>> /\ refreshTimeoutId = 0 /\ timers = {} /\ ops = <<>>
    /\ today = 0 /\ userChanges = 0 /\ mounted = FALSE /\ rendered = 0

----------------------------------------------------------------------------
(* SpecRow: parseCSVRow, one loop iteration per step                       *)

MaxRowLen == 5

RowAlphabet == {"a", COMMA, QUOTE, SPACE}

SeqsUpTo(S, n) == UNION {[1..m -> S] : m \in 0..n}

\* the line of the specification's example
SmithRow == <<QUOTE,"S","m","i","t","h",COMMA,SPACE,"J","r",".",QUOTE,COMMA,"D","o","e",COMMA,"5","5","5","-","0","0","0","-","1","1","1","1">>

SmithField == <<"S","m","i","t","h",COMMA,SPACE,"J","r",".">>

RowInputs == SeqsUpTo(RowAlphabet, MaxRowLen) \cup {SmithRow}

\* the splitter's locals as one record
RowState == [j |-> j, current |-> current, inQuotes |-> inQuotes, result |-> result]

InitRow ==
    /\ row \in RowInputs
    /\ j = ParseCSVRowInit.j
    /\ current = ParseCSVRowInit.current
    /\ inQuotes = ParseCSVRowInit.inQuotes
    /\ result = ParseCSVRowInit.result
    /\ rowPc = "loop"
    /\ StudentIdle
    /\ TextIdle
    /\ ExportIdle
    /\ FileIdle
    /\ AuthIdle
    /\ CtxIdle
    /\ ReqIdle

\* for (let i = 0; i < row.length; i++) { ... }
RowLoop ==
    /\ rowPc = "loop"
    /\ j < Len(row)
    /\ LET st == ParseCSVRowStep(row, RowState) IN
         /\ j' = st.j
         /\ current' = st.current
         /\ inQuotes' = st.inQuotes
         /\ result' = st.result
    /\ UNCHANGED <<row, rowPc, studentVars, textVars, exportVars, fileVars, authVars, ctxVars, reqVars>>

\* result.push(current.trim()); return result
RowReturn ==
    /\ rowPc = "loop"
    /\ j >= Len(row)
    /\ result' = ParseCSVRowLast(RowState)
    /\ rowPc' = "done"
    /\ UNCHANGED <<row, j, current, inQuotes, studentVars, textVars, exportVars,
                   fileVars, authVars, ctxVars, reqVars>>

NextRow == RowLoop \/ RowReturn

SpecRow == InitRow /\ [][NextRow]_vars

----------------------------------------------------------------------------
(* Claims about parseCSVRow, under SpecRow                                 *)

CommaCount(s) == Cardinality({k \in 1..Len(s) : s[k] = COMMA})

RECURSIVE CommasInFields(_)
CommasInFields(fields) ==
    IF fields = <<>> THEN 0
    ELSE CommaCount(Head(fields)) + CommasInFields(Tail(fields))

IsTrimmed(s) == s = <<>> \/ (~IsWhiteSpace(s[1]) /\ ~IsWhiteSpace(s[Len(s)]))

\* a loop iteration ends a field exactly when it sees a comma outside quoted
\* mode, the field it emits is the trimmed accumulator, and a comma seen in
\* quoted mode goes into the accumulator
C9_LoopStep ==
    (rowPc = "loop" /\ rowPc' = "loop") =>
        IF row[j + 1] = COMMA /\ ~inQuotes
        THEN result' = Append(result, Trim(current)) /\ current' = <<>>
        ELSE /\ result' = result
             /\ row[j + 1] = COMMA => current' = Append(current, COMMA)

\* the last field is emitted, trimmed, when the loop has ended
C9_LastStep ==
    (rowPc = "loop" /\ rowPc' = "done") =>
        j >= Len(row) /\ result' = Append(result, Trim(current))

\* every comma of the line either separates two fields or is content of one;
\* every field is trimmed; the example line of the specification
C9_Returned ==
    rowPc = "done" =>
        /\ Len(result) = 1 + CommaCount(row) - CommasInFields(result)
        /\ \A k \in 1..Len(result) : IsTrimmed(result[k])
        /\ (\A k \in 1..Len(row) : row[k] # QUOTE) => Len(result) = 1 + CommaCount(row)
        /\ row = SmithRow => Len(result) = 3 /\ result[1] = SmithField

\* C9: the field splitter ends a field only at a comma seen outside quoted
\* mode, so the number of fields is 1 plus the number of such commas; a comma
\* in quoted mode stays content of its field; every field is trimmed; the
\* last field is emitted at the end of the line.
C9_FieldsEndAtOutsideCommas ==
    /\ [][C9_LoopStep /\ C9_LastStep]_vars
    /\ []C9_Returned

\* a line with a comma in quoted mode has been split
C9_Witness ==
    /\ rowPc = "done"
    /\ row = SmithRow
    /\ Len(result) = 3

\* the state after the next iteration, and after the one that follows it
C10_After1 == ParseCSVRowStep(row, RowState)
C10_After2 == ParseCSVRowStep(row, C10_After1)

C10_AtQuote == rowPc = "loop" /\ CharAt(row, j) = Some(QUOTE)

\* in quoted mode two adjacent quotes give one literal quote and leave the
\* mode; any other quote toggles the mode and is not copied
C10_OneQuote ==
    C10_AtQuote =>
        /\ C10_After1.result = result
        /\ IF inQuotes /\ CharAt(row, j + 1) = Some(QUOTE)
           THEN /\ C10_After1.current = Append(current, QUOTE)
                /\ C10_After1.inQuotes = inQuotes
                /\ C10_After1.j = j + 2
           ELSE /\ C10_After1.current = current
                /\ C10_After1.inQuotes = ~inQuotes
                /\ C10_After1.j = j + 1

\* outside quoted mode, two adjacent quotes toggle twice and add nothing
C10_PairOutside ==
    /\ C10_After2.inQuotes = FALSE
    /\ C10_After2.current = current
    /\ C10_After2.result = result
    /\ C10_After2.j = j + 2

\* C10 as claimed: a quote toggles quoted mode and is not copied, except that
\* in quoted mode two adjacent quotes become one literal quote and leave the
\* mode unchanged; outside quoted mode two adjacent quotes toggle twice and
\* add nothing.
C10_AsClaimed ==
    /\ C10_OneQuote
    /\ (C10_AtQuote /\ ~inQuotes /\ CharAt(row, j + 1) = Some(QUOTE))
          => C10_PairOutside

\* C10 amended: as claimed, where outside quoted mode the two adjacent quotes
\* toggle twice and add nothing when no third quote follows them; when one
\* does, the first quote opens quoted mode and the second and third are the
\* doubled quote of quoted mode.
C10_QuoteToggles ==
    /\ C10_OneQuote
    /\ (C10_AtQuote /\ ~inQuotes /\ CharAt(row, j + 1) = Some(QUOTE))
          => IF CharAt(row, j + 2) = Some(QUOTE)
             THEN /\ C10_After2.inQuotes = TRUE
                  /\ C10_After2.current = Append(current, QUOTE)
                  /\ C10_After2.j = j + 3
             ELSE C10_PairOutside

\* a doubled quote has been read in quoted mode, and the line is returned
C10_Witness ==
    /\ rowPc = "done"
    /\ row = <<QUOTE, "a", QUOTE, QUOTE, QUOTE>>
    /\ result = << <<"a", QUOTE>> >>

----------------------------------------------------------------------------
(* parseStudentRow                                                         *)

KeyFirstName == <<"f", "i", "r", "s", "t", SPACE, "n", "a", "m", "e">>
KeyLastName == <<"l", "a", "s", "t", SPACE, "n", "a", "m", "e">>
KeyPhone == <<"p", "h", "o", "n", "e">>

\* replace(/^"|"$/g, ''): one leading and one trailing double quote
StripQuotes(s) ==
    LET t == IF s # <<>> /\ Head(s) = QUOTE THEN Tail(s) ELSE s
    IN IF t # <<>> /\ t[Len(t)] = QUOTE THEN SubSeq(t, 1, Len(t) - 1) ELSE t

\* rowData[headerMap[key]]?.replace(/^"|"$/g, '').trim(): None is undefined
ExtractField(rd, hm, key) ==
    IF hm[key] < Len(rd) THEN Some(Trim(StripQuotes(rd[hm[key] + 1]))) ELSE None

\* !value of an optional string
IsMissing(opt) == opt = None \/ opt = Some(<<>>)

IsDigit(c) == c \in {"0", "1", "2", "3", "4", "5", "6", "7", "8", "9"}

\* the character class [\d\s\-\(\)]
IsPhoneChar(c) == IsDigit(c) \/ IsWhiteSpace(c) \/ c \in {"-", "(", ")"}

MinPhoneChars == 7

\* The quantifier is {6,}.
MutPhoneRegexShort(s) ==
    LET body == IF s # <<>> /\ Head(s) = "+" THEN Tail(s) ELSE s
    IN Len(body) >= MinPhoneChars - 1 /\ \A k \in 1..Len(body) : IsPhoneChar(body[k])

\* /^[\+]?[\d\s\-\(\)]{7,}$/.test(s)
PhoneRegexTest(s) ==
    LET body == IF s # <<>> /\ Head(s) = "+" THEN Tail(s) ELSE s
    IN Len(body) >= MinPhoneChars /\ \A k \in 1..Len(body) : IsPhoneChar(body[k])

NoMessage == [msg |-> "", names |-> <<>>, value |-> <<>>]
NoStudent == [firstName |-> <<>>, lastName |-> <<>>, phone |-> <<>>]
NoOutcome == [threw |-> FALSE, message |-> NoMessage, student |-> NoStudent]

\* `Missing required fields: ${missing.join(', ')}`
MissingFieldsMessage(names) ==
    [msg |-> "Missing required fields", names |-> names, value |-> <<>>]

\* `Invalid phone number format: ${phone}`
InvalidPhoneMessage(phone) ==
    [msg |-> "Invalid phone number format", names |-> <<>>, value |-> phone]

Throw(m) == [threw |-> TRUE, message |-> m, student |-> NoStudent]
Return(st) == [threw |-> FALSE, message |-> NoMessage, student |-> st]

\* Only the first missing field is named.
MutStudentRowFirstMissing(rd, hm) ==
    LET firstName == ExtractField(rd, hm, KeyFirstName)
        lastName == ExtractField(rd, hm, KeyLastName)
        phone == ExtractField(rd, hm, KeyPhone)
    IN IF IsMissing(firstName) THEN Throw(MissingFieldsMessage(<<"First Name">>))
       ELSE IF IsMissing(lastName) THEN Throw(MissingFieldsMessage(<<"Last Name">>))
       ELSE IF IsMissing(phone) THEN Throw(MissingFieldsMessage(<<"Phone">>))
       ELSE IF ~PhoneRegexTest(phone[1]) THEN Throw(InvalidPhoneMessage(phone[1]))
       ELSE Return([firstName |-> firstName[1], lastName |-> lastName[1],
                    phone |-> phone[1]])

ParseStudentRow(rd, hm) ==
    LET firstName == ExtractField(rd, hm, KeyFirstName)
        lastName == ExtractField(rd, hm, KeyLastName)
        phone == ExtractField(rd, hm, KeyPhone)
        missing == (IF IsMissing(firstName) THEN <<"First Name">> ELSE <<>>)
                   \o (IF IsMissing(lastName) THEN <<"Last Name">> ELSE <<>>)
                   \o (IF IsMissing(phone) THEN <<"Phone">> ELSE <<>>)
    IN IF IsMissing(firstName) \/ IsMissing(lastName) \/ IsMissing(phone)
       THEN Throw(MissingFieldsMessage(missing))
       ELSE IF ~PhoneRegexTest(phone[1])
       THEN Throw(InvalidPhoneMessage(phone[1]))
       ELSE Return([firstName |-> firstName[1], lastName |-> lastName[1],
                    phone |-> phone[1]])

----------------------------------------------------------------------------
(* SpecStudent: parseStudentRow on one split row                           *)

MaxPhoneLen == 8

KeyEmail == <<"e", "m", "a", "i", "l">>

\* header maps as parseCSVText builds them: the canonical three columns, and
\* a permutation of them with one more column
StudentHeaderMaps ==
    { (KeyFirstName :> 0) @@ (KeyLastName :> 1) @@ (KeyPhone :> 2),
      (KeyPhone :> 0) @@ (KeyEmail :> 1) @@ (KeyLastName :> 2) @@ (KeyFirstName :> 3) }

FirstNameFields == {<<"A", "l">>, <<>>, <<QUOTE>>, <<QUOTE, "A", "l", QUOTE>>}
LastNameFields == {<<"B", COMMA, "o">>, <<>>, <<QUOTE, SPACE, QUOTE>>}

PhoneProbeChars == {"1", SPACE, "-", "(", ")", TAB, "+", "a", QUOTE}

\* n digits, the one at pos replaced by c
PhoneBody(n, pos, c) == [k \in 1..n |-> IF k = pos THEN c ELSE "5"]

PhoneBodies ==
    {<<>>} \cup
    { PhoneBody(n, pos, c) :
        n \in 1..MaxPhoneLen, pos \in 1..MaxPhoneLen, c \in PhoneProbeChars }

SamplePhoneOk == <<"+", "1", SPACE, "(", "5", "5", "5", ")", SPACE, "1", "2", "3", "-", "4", "5", "6", "7">>
SamplePhoneBad == <<"a", "b", "c">>

\* the fields parseCSVRow can emit are trimmed
PhoneFields ==
    { f \in { pre \o b : pre \in {<<>>, <<"+">>}, b \in PhoneBodies }
              \cup {SamplePhoneOk, SamplePhoneBad} : IsTrimmed(f) }

\* the row of the given cells under header map hm, its last cut cells absent
StudentRowOf(hm, f, l, p, cut) ==
    LET width == 1 + CHOOSE m \in {hm[k] : k \in DOMAIN hm} :
                        \A k \in DOMAIN hm : hm[k] <= m
        full == [n \in 1..width |->
                   IF n - 1 = hm[KeyFirstName] THEN f
                   ELSE IF n - 1 = hm[KeyLastName] THEN l
                   ELSE IF n - 1 = hm[KeyPhone] THEN p
                   ELSE <<"x">>]
    IN SubSeq(full, 1, width - cut)

InitStudent ==
    /\ rowHeaderMap \in StudentHeaderMaps
    /\ \E f \in FirstNameFields, l \in LastNameFields, p \in PhoneFields, cut \in 0..1 :
          rowData = StudentRowOf(rowHeaderMap, f, l, p, cut)
    /\ studentOut = NoOutcome
    /\ studentPc = "call"
    /\ RowIdle
    /\ TextIdle
    /\ ExportIdle
    /\ FileIdle
    /\ AuthIdle
    /\ CtxIdle
    /\ ReqIdle

\* const student = parseStudentRow(rowData, headerMap), returning or throwing
StudentCall ==
    /\ studentPc = "call"
    /\ studentOut' = ParseStudentRow(rowData, rowHeaderMap)
    /\ studentPc' = "done"
    /\ UNCHANGED <<rowData, rowHeaderMap, rowVars, textVars, exportVars, fileVars, authVars, ctxVars, reqVars>>

NextStudent == StudentCall

SpecStudent == InitStudent /\ [][NextStudent]_vars

----------------------------------------------------------------------------
(* Claims about parseStudentRow, under SpecStudent                         *)

C7_First == ExtractField(rowData, rowHeaderMap, KeyFirstName)
C7_Last == ExtractField(rowData, rowHeaderMap, KeyLastName)
C7_Phone == ExtractField(rowData, rowHeaderMap, KeyPhone)

C7_AllPresent == ~IsMissing(C7_First) /\ ~IsMissing(C7_Last) /\ ~IsMissing(C7_Phone)

\* an optional leading plus sign, then 7 or more characters of the set
C7_Shape(s, allowed) ==
    \E plus \in 0..1 :
        /\ plus = 1 => (Len(s) >= 1 /\ s[1] = "+")
        /\ Len(s) - plus >= 7
        /\ \A k \in (plus + 1)..Len(s) : s[k] \in allowed

C7_Digits == {"0", "1", "2", "3", "4", "5", "6", "7", "8", "9"}
C7_SetAsClaimed == C7_Digits \cup {SPACE, "-", "(", ")"}
C7_SetWhiteSpace == C7_Digits \cup {SPACE, TAB, "\r", "-", "(", ")"}

C7_Outcome(allowed) ==
    (studentPc = "done" /\ C7_AllPresent) =>
        IF C7_Shape(C7_Phone[1], allowed)
        THEN studentOut = Return([firstName |-> C7_First[1], lastName |-> C7_Last[1],
                                  phone |-> C7_Phone[1]])
        ELSE studentOut = Throw(InvalidPhoneMessage(C7_Phone[1]))

\* C7 as claimed: a row whose three values are non-empty is accepted if and
\* only if its phone is an optional '+' followed by 7 or more characters
\* drawn from digit, space, hyphen, '(' and ')'; otherwise it is refused with
\* an 'Invalid phone number format' error holding the value, and no entry.
C7_AsClaimed == C7_Outcome(C7_SetAsClaimed)

\* C7 amended: as claimed, with any white space character (a tab, a carriage
\* return), not only the space, among the characters a phone may hold.
C7_PhoneShape ==
    /\ C7_Outcome(C7_SetWhiteSpace)
    /\ (studentPc = "done" /\ C7_Phone = Some(SamplePhoneOk) /\ C7_AllPresent)
          => ~studentOut.threw
    /\ (studentPc = "done" /\ C7_Phone = Some(SamplePhoneBad) /\ C7_AllPresent)
          => studentOut.threw

\* the sample phone of the specification has been accepted
C7_Witness ==
    /\ studentPc = "done"
    /\ ~studentOut.threw
    /\ studentOut.student.phone = SamplePhoneOk

----------------------------------------------------------------------------
(* parseCSVText                                                            *)

\* text.split('\n')
RECURSIVE SplitLines(_)
SplitLines(s) ==
    IF \A k \in 1..Len(s) : s[k] # NEWLINE THEN <<s>>
    ELSE LET first == CHOOSE k \in 1..Len(s) :
                         s[k] = NEWLINE /\ \A m \in 1..(k - 1) : s[m] # NEWLINE
         IN <<SubSeq(s, 1, first - 1)>> \o SplitLines(SubSeq(s, first + 1, Len(s)))

IsNonEmptyLine(line) == Trim(line) # <<>>

\* text.split('\n').filter(line => line.trim() !== '')
NonEmptyLines(s) == SelectSeq(SplitLines(s), IsNonEmptyLine)

\* The header row alone is enough.
MutTooFewLinesOne(ls) == Len(ls) < 1

\* lines.length < 2
TooFewLines(ls) == Len(ls) < 2

ExpectedHeaders == <<KeyFirstName, KeyLastName, KeyPhone>>

HeaderKey(header) == Trim(ToLowerCase(header))

\* The columns are taken by position, whatever the header names.
MutHeaderMapByPosition(headers) ==
    [key \in {HeaderKey(headers[n]) : n \in 1..Len(headers)} |->
        IF key = KeyFirstName THEN 0 ELSE IF key = KeyLastName THEN 1
        ELSE IF key = KeyPhone THEN 2
        ELSE (CHOOSE n \in 1..Len(headers) : HeaderKey(headers[n]) = key) - 1]

\* headers.forEach((header, index) => headerMap[header.toLowerCase().trim()] = index):
\* the last column of a name is the one kept
HeaderMapOf(headers) ==
    [key \in {HeaderKey(headers[n]) : n \in 1..Len(headers)} |->
        (CHOOSE n \in 1..Len(headers) :
            /\ HeaderKey(headers[n]) = key
            /\ \A m \in 1..Len(headers) : HeaderKey(headers[m]) = key => m <= n) - 1]

\* Only the first missing header is reported.
MutMissingHeadersFirst(hm) ==
    LET all == SelectSeq(ExpectedHeaders, LAMBDA h : h \notin DOMAIN hm)
    IN IF all = <<>> THEN <<>> ELSE <<all[1]>>

\* expectedHeaders.filter(header => !(header in headerMap))
MissingHeaders(hm) == SelectSeq(ExpectedHeaders, LAMBDA h : h \notin DOMAIN hm)

\* the header names as the message prints them
HeaderText(key) ==
    IF key = KeyFirstName THEN "first name"
    ELSE IF key = KeyLastName THEN "last name"
    ELSE "phone"

\* an error string: `Row ${row}: ` before the message when row > 0
ErrorString(n, m) == [row |-> n, msg |-> m.msg, names |-> m.names, value |-> m.value]

NoResult == [success |-> FALSE, data |-> None, errors |-> None, invalidRows |-> None]

\* { success: false, errors: ['CSV file must contain at least a header row and one data row'] }
EmptyInputResult ==
    [success |-> FALSE, data |-> None, invalidRows |-> None,
     errors |-> Some(<<ErrorString(0,
        [msg |-> "CSV file must contain at least a header row and one data row",
         names |-> <<>>, value |-> <<>>])>>)]

\* { success: false, errors: [`Missing required columns: ${missingHeaders.join(', ')}`] }
MissingColumnsResult(missing) ==
    [success |-> FALSE, data |-> None, invalidRows |-> None,
     errors |-> Some(<<ErrorString(0,
        [msg |-> "Missing required columns",
         names |-> [n \in 1..Len(missing) |-> HeaderText(missing[n])],
         value |-> <<>>])>>)]

\* const data = [], errors = [], invalidRows = []
EmptyAcc == [data |-> <<>>, errors |-> <<>>, invalidRows |-> <<>>]

\* The row number pushed is the loop index, not the row's number.
MutRowOutcomeIndex(acc, line, hm, n) ==
    LET rd == ParseCSVRow(line) IN
    IF Len(rd) = 0 THEN acc
    ELSE LET out == ParseStudentRow(rd, hm) IN
         IF out.threw
         THEN [acc EXCEPT !.errors = Append(@, ErrorString(n, out.message)),
                          !.invalidRows = Append(@, n)]
         ELSE [acc EXCEPT !.data = Append(@, out.student)]

\* The rows after a failing row are not parsed.
MutRowOutcomeStopsAtError(acc, line, hm, n) ==
    LET rd == ParseCSVRow(line) IN
    IF Len(rd) = 0 \/ acc.errors # <<>> THEN acc
    ELSE LET out == ParseStudentRow(rd, hm) IN
         IF out.threw
         THEN [acc EXCEPT !.errors = Append(@, ErrorString(n + 1, out.message)),
                          !.invalidRows = Append(@, n + 1)]
         ELSE [acc EXCEPT !.data = Append(@, out.student)]

\* A failing row is skipped like a row without fields.
MutRowOutcomeDropsFailed(acc, line, hm, n) ==
    LET rd == ParseCSVRow(line) IN
    IF Len(rd) = 0 THEN acc
    ELSE LET out == ParseStudentRow(rd, hm) IN
         IF out.threw THEN acc
         ELSE [acc EXCEPT !.data = Append(@, out.student)]

\* The body of the loop over the data lines, for lines[n] (n is the loop's i).
\* parseStudentRow returns an object or throws, so the branch that tags a
\* row invalid without an error is never taken.
RowOutcome(acc, line, hm, n) ==
    LET rd == ParseCSVRow(line) IN
    IF Len(rd) = 0 THEN acc
    ELSE LET out == ParseStudentRow(rd, hm) IN
         IF out.threw
         THEN [acc EXCEPT !.errors = Append(@, ErrorString(n + 1, out.message)),
                          !.invalidRows = Append(@, n + 1)]
         ELSE [acc EXCEPT !.data = Append(@, out.student)]

\* Success only when no row failed.
MutTextResultAllOrNothing(acc) ==
    [success |-> acc.errors = <<>>,
     data |-> Some(acc.data),
     errors |-> IF Len(acc.errors) > 0 THEN Some(acc.errors) ELSE None,
     invalidRows |-> IF Len(acc.invalidRows) > 0 THEN Some(acc.invalidRows) ELSE None]

\* { success: data.length > 0, data, errors: ... : undefined, invalidRows: ... : undefined }
TextResult(acc) ==
    [success |-> Len(acc.data) > 0,
     data |-> Some(acc.data),
     errors |-> IF Len(acc.errors) > 0 THEN Some(acc.errors) ELSE None,
     invalidRows |-> IF Len(acc.invalidRows) > 0 THEN Some(acc.invalidRows) ELSE None]

\* for (let i = 1; i < lines.length; i++) { ... }, from i = n
RECURSIVE ParseRowsFrom(_, _, _, _)
ParseRowsFrom(ls, hm, n, acc) ==
    IF n < Len(ls)
    THEN ParseRowsFrom(ls, hm, n + 1, RowOutcome(acc, ls[n + 1], hm, n))
    ELSE acc

ParseCSVText(s) ==
    LET ls == NonEmptyLines(s) IN
    IF TooFewLines(ls) THEN EmptyInputResult
    ELSE LET hm == HeaderMapOf(ParseCSVRow(ls[1])) IN
         IF Len(MissingHeaders(hm)) > 0
         THEN MissingColumnsResult(MissingHeaders(hm))
         ELSE TextResult(ParseRowsFrom(ls, hm, 1, EmptyAcc))

----------------------------------------------------------------------------
(* Spec: parseCSVText on the texts of a few layouts and data lines         *)

MaxRows == 2

\* the header cell of a column in a style: as the sample file writes it, in
\* upper case between spaces, or in lower case between quotes
HeaderCell(col, style) ==
    LET name == CASE col = "F" -> <<"F", "i", "r", "s", "t", SPACE, "N", "a", "m", "e">>
                  [] col = "L" -> <<"L", "a", "s", "t", SPACE, "N", "a", "m", "e">>
                  [] col = "P" -> <<"P", "h", "o", "n", "e">>
                  [] OTHER -> <<"E", "m", "a", "i", "l">>
        upper == CASE col = "F" -> <<"F", "I", "R", "S", "T", SPACE, "N", "A", "M", "E">>
                   [] col = "L" -> <<"L", "A", "S", "T", SPACE, "N", "A", "M", "E">>
                   [] col = "P" -> <<"P", "H", "O", "N", "E">>
                   [] OTHER -> <<"E", "M", "A", "I", "L">>
    IN CASE style = "title" -> name
         [] style = "upper" -> <<SPACE>> \o upper \o <<SPACE>>
         [] OTHER -> <<QUOTE>> \o ToLowerCase(name) \o <<QUOTE>>

Perms3 ==
    { <<"F", "L", "P">>, <<"F", "P", "L">>, <<"L", "F", "P">>,
      <<"L", "P", "F">>, <<"P", "F", "L">>, <<"P", "L", "F">> }

WithExtra ==
    { <<"E", "F", "L", "P">>, <<"P", "E", "L", "F">>, <<"L", "F", "P", "E">> }

Lacking ==
    { <<"L", "P">>, <<"P", "F">>, <<"F", "L">>, <<"P">>, <<"L">>,
      <<"F">>, <<"E">>, <<>> }

Layouts ==
    {[cols |-> c, style |-> "title"] : c \in Perms3 \cup Lacking}
    \cup {[cols |-> c, style |-> "upper"] : c \in WithExtra \cup {<<"L", "P", "F">>}}
    \cup {[cols |-> c, style |-> "quoted"] :
            c \in {<<"F", "L", "P">>, <<"P", "F", "L">>, <<"E", "L">>}}

CanonicalLayout == [cols |-> <<"F", "L", "P">>, style |-> "title"]

CellsRow(f, l, p, cut) == [kind |-> "cells", F |-> f, L |-> l, P |-> p, cut |-> cut]
BlankRow(raw) == [kind |-> "blank", F |-> raw, L |-> <<>>, P |-> <<>>, cut |-> 0]

CellAl == <<SPACE, "A", "l">>
CellBo == <<QUOTE, "B", COMMA, "o", QUOTE>>
CellPhone == <<"5", "5", "5", "-", "1", "2", "3", "4">>
CellBadPhone == <<"a", "b", "c">>
CellQuoteOnly == <<QUOTE, QUOTE, QUOTE, QUOTE>>
CellExtra == <<"x">>

\* the data lines: a valid one, one for each set of empty values, one with a
\* phone of the wrong shape, one that lacks its last cell, and blank lines
RowKinds ==
    { CellsRow(CellAl, CellBo, CellPhone, 0),
      CellsRow(<<>>, CellBo, CellPhone, 0),
      CellsRow(CellAl, <<>>, CellPhone, 0),
      CellsRow(CellAl, CellBo, <<>>, 0),
      CellsRow(CellQuoteOnly, <<SPACE>>, CellPhone, 0),
      CellsRow(<<>>, CellBo, <<SPACE>>, 0),
      CellsRow(CellAl, <<>>, <<>>, 0),
      CellsRow(<<>>, <<>>, <<>>, 0),
      CellsRow(CellAl, CellBo, CellBadPhone, 0),
      CellsRow(CellAl, CellBo, CellPhone, 1),
      BlankRow(<<>>),
      BlankRow(<<SPACE, TAB>>) }

RECURSIVE Join(_, _)
Join(parts, sep) ==
    IF parts = <<>> THEN <<>>
    ELSE IF Len(parts) = 1 THEN parts[1]
    ELSE parts[1] \o <<sep>> \o Join(Tail(parts), sep)

CellOf(r, col) ==
    CASE col = "F" -> r.F
      [] col = "L" -> r.L
      [] col = "P" -> r.P
      [] OTHER -> CellExtra

HeaderLine(lay) == Join([n \in 1..Len(lay.cols) |-> HeaderCell(lay.cols[n], lay.style)], COMMA)

RowLine(lay, r) ==
    IF r.kind = "blank" THEN r.F
    ELSE LET width == IF Len(lay.cols) > r.cut THEN Len(lay.cols) - r.cut ELSE 0
         IN Join([n \in 1..width |-> CellOf(r, lay.cols[n])], COMMA)

TextLines(lay, rows) == <<HeaderLine(lay)>> \o [n \in 1..Len(rows) |-> RowLine(lay, rows[n])]

RenderText(lay, rows) == Join(TextLines(lay, rows), NEWLINE)

Init ==
    /\ layout \in Layouts
    /\ cells \in SeqsUpTo(RowKinds, MaxRows)
    /\ text = RenderText(layout, cells)
    /\ lines = <<>>
    /\ headerMap = <<>>
    /\ i = 0
    /\ data = <<>>
    /\ errors = <<>>
    /\ invalidRows = <<>>
    /\ ret = NoResult
    /\ pc = "start"
    /\ RowIdle
    /\ StudentIdle
    /\ ExportIdle
    /\ FileIdle
    /\ AuthIdle
    /\ CtxIdle
    /\ ReqIdle

\* const lines = ...; if (lines.length < 2) return { success: false, ... }
TextStart ==
    /\ pc = "start"
    /\ lines' = NonEmptyLines(text)
    /\ IF TooFewLines(lines')
       THEN ret' = EmptyInputResult /\ pc' = "done"
       ELSE ret' = ret /\ pc' = "header"
    /\ UNCHANGED <<layout, cells, text, headerMap, i, data, errors, invalidRows,
                   rowVars, studentVars,
                   exportVars, fileVars, authVars, ctxVars, reqVars>>

\* the header row: headerMap, missingHeaders, and the three empty arrays
TextHeader ==
    /\ pc = "header"
    /\ headerMap' = HeaderMapOf(ParseCSVRow(lines[1]))
    /\ IF Len(MissingHeaders(headerMap')) > 0
       THEN /\ ret' = MissingColumnsResult(MissingHeaders(headerMap'))
            /\ pc' = "done"
            /\ UNCHANGED <<i, data, errors, invalidRows>>
       ELSE /\ data' = EmptyAcc.data
            /\ errors' = EmptyAcc.errors
            /\ invalidRows' = EmptyAcc.invalidRows
            /\ i' = 1
            /\ pc' = "rows"
            /\ ret' = ret
    /\ UNCHANGED <<layout, cells, text, lines, rowVars, studentVars,
                   exportVars, fileVars, authVars, ctxVars, reqVars>>

\* one iteration of for (let i = 1; i < lines.length; i++)
TextRow ==
    /\ pc = "rows"
    /\ i < Len(lines)
    /\ LET acc == RowOutcome([data |-> data, errors |-> errors,
                              invalidRows |-> invalidRows], lines[i + 1], headerMap, i)
       IN /\ data' = acc.data
          /\ errors' = acc.errors
          /\ invalidRows' = acc.invalidRows
    /\ i' = i + 1
    /\ UNCHANGED <<layout, cells, text, lines, headerMap, ret, pc, rowVars, studentVars,
                   exportVars, fileVars, authVars, ctxVars, reqVars>>

\* return { success: data.length > 0, data, errors, invalidRows }
TextReturn ==
    /\ pc = "rows"
    /\ i >= Len(lines)
    /\ ret' = TextResult([data |-> data, errors |-> errors, invalidRows |-> invalidRows])
    /\ pc' = "done"
    /\ UNCHANGED <<layout, cells, text, lines, headerMap, i, data, errors, invalidRows,
                   rowVars, studentVars,
                   exportVars, fileVars, authVars, ctxVars, reqVars>>

Next == TextStart \/ TextHeader \/ TextRow \/ TextReturn

Spec == Init /\ [][Next]_vars

----------------------------------------------------------------------------
(* Claims about parseCSVText, under Spec.  What the input holds is read    *)
(* from the layout and the data lines it was written from.                 *)

\* the lines of the input that are not empty after trimming
In_Lines == SelectSeq(TextLines(layout, cells), IsNonEmptyLine)
In_DataLines == IF In_Lines = <<>> THEN <<>> ELSE Tail(In_Lines)

In_Columns == {layout.cols[n] : n \in 1..Len(layout.cols)}
In_Absent == {"F", "L", "P"} \ In_Columns
In_Structural == Len(In_Lines) >= 2 /\ In_Absent = {}

In_KeyOf(col) ==
    CASE col = "F" -> KeyFirstName
      [] col = "L" -> KeyLastName
      [] col = "P" -> KeyPhone
      [] OTHER -> KeyEmail

\* the column index of each header name, from the layout
In_HeaderMap ==
    [key \in {In_KeyOf(c) : c \in In_Columns} |->
        (CHOOSE n \in 1..Len(layout.cols) : In_KeyOf(layout.cols[n]) = key) - 1]

\* what the row of a data line comes to
In_RowOut(line) == ParseStudentRow(ParseCSVRow(line), In_HeaderMap)
In_Fails(line) == In_RowOut(line).threw

In_SomeValid == \E n \in 1..Len(In_DataLines) : ~In_Fails(In_DataLines[n])
In_SomeFailed == \E n \in 1..Len(In_DataLines) : In_Fails(In_DataLines[n])

\* an optional array as an array
ArrayOf(opt) == IF opt = None THEN <<>> ELSE opt[1]

\* C1: for a text that passes the structural checks, success is true if and
\* only if some data row gave a valid entry, also when other rows failed;
\* the errors and the invalid rows are present, and then not empty, if and
\* only if some row failed.
C1_PartialSuccess ==
    (pc = "done" /\ In_Structural) =>
        /\ ret.success <=> In_SomeValid
        /\ ret.errors # None <=> In_SomeFailed
        /\ ret.invalidRows # None <=> In_SomeFailed
        /\ ret.errors # None => ret.errors[1] # <<>>
        /\ ret.invalidRows # None => ret.invalidRows[1] # <<>>

\* a parse that succeeded although a row failed
C1_Witness ==
    /\ pc = "done"
    /\ In_Structural
    /\ ret.success
    /\ ret.errors # None
    /\ In_SomeFailed

RECURSIVE In_ValidStudents(_)
In_ValidStudents(ls) ==
    IF ls = <<>> THEN <<>>
    ELSE (IF In_Fails(Head(ls)) THEN <<>> ELSE <<In_RowOut(Head(ls)).student>>)
         \o In_ValidStudents(Tail(ls))

\* C2: a failing row never aborts the parse: the data returned are the
\* entries of the valid rows, all of them, in input order, also those after
\* a failing row; a structural error returns no data and no row error.
C2_RowErrorsDoNotAbort ==
    pc = "done" =>
        IF In_Structural
        THEN ret.data = Some(In_ValidStudents(In_DataLines))
        ELSE /\ ret.data = None
             /\ ret.success = FALSE
             /\ ret.invalidRows = None
             /\ \A n \in 1..Len(ArrayOf(ret.errors)) : ArrayOf(ret.errors)[n].row = 0

\* a valid row after a failing row has given its entry
C2_Witness ==
    /\ pc = "done"
    /\ In_Structural
    /\ Len(In_DataLines) = 2
    /\ In_Fails(In_DataLines[1])
    /\ ~In_Fails(In_DataLines[2])
    /\ Len(ArrayOf(ret.data)) = 1

\* C3: a text with fewer than 2 lines that are not empty after trimming gives
\* success = false, exactly one error string, no data and no invalid rows.
C3_EmptyInput ==
    (pc = "done" /\ Len(In_Lines) < 2) =>
        /\ ret.success = FALSE
        /\ ret.errors # None
        /\ Len(ArrayOf(ret.errors)) = 1
        /\ ret.data = None
        /\ ret.invalidRows = None

\* the header line and a line break, no data row
C3_Witness ==
    /\ pc = "done"
    /\ layout = CanonicalLayout
    /\ cells = <<BlankRow(<<>>)>>
    /\ ret.success = FALSE

In_HeaderTextOf(col) ==
    CASE col = "F" -> "first name"
      [] col = "L" -> "last name"
      [] OTHER -> "phone"

C4_Refused ==
    /\ ret.success = FALSE
    /\ Len(ArrayOf(ret.errors)) = 1
    /\ LET names == ArrayOf(ret.errors)[1].names
       IN {names[n] : n \in 1..Len(names)} = {In_HeaderTextOf(c) : c \in In_Absent}
    /\ ret.data = None
    /\ ret.invalidRows = None

\* C4 as claimed: a header line that lacks a required header gives success =
\* false with exactly one error string, which names every absent required
\* header and no present one, and no data row is processed.
C4_AsClaimed == (pc = "done" /\ In_Absent # {}) => C4_Refused

\* C4 amended: as claimed, for a text with at least 2 lines that are not
\* empty after trimming; with fewer, the one error string is that of the
\* empty input, which names no header.
C4_MissingColumns ==
    /\ (pc = "done" /\ In_Absent # {} /\ Len(In_Lines) >= 2) => C4_Refused
    /\ (pc = "done" /\ In_Absent # {} /\ Len(In_Lines) < 2) => ret = EmptyInputResult

\* two data rows under a header without the phone column
C4_Witness ==
    /\ pc = "done"
    /\ layout.cols = <<"F", "L">>
    /\ Len(In_Lines) = 3
    /\ ArrayOf(ret.errors)[1].names = <<"phone">>

\* the names of the values of a data line that are empty, or absent, after
\* quote-stripping and trimming
C5_Empty(line) ==
    LET rd == ParseCSVRow(line)
        empty(key) == LET v == IF In_HeaderMap[key] < Len(rd)
                               THEN Trim(StripQuotes(rd[In_HeaderMap[key] + 1]))
                               ELSE <<>>
                      IN v = <<>>
    IN (IF empty(KeyFirstName) THEN {"First Name"} ELSE {})
       \cup (IF empty(KeyLastName) THEN {"Last Name"} ELSE {})
       \cup (IF empty(KeyPhone) THEN {"Phone"} ELSE {})

C5_ErrorsOfRow(n) ==
    SelectSeq(ArrayOf(ret.errors), LAMBDA e : e.row = n)

\* C5: every data row with an empty first name, last name or phone gives one
\* 'Missing required fields' error naming exactly the empty ones, and no
\* entry; the parse goes on with the next row, so every data row ends as an
\* entry or as an invalid row.
C5_MissingFields ==
    (pc = "done" /\ In_Structural) =>
        LET dataLines == In_DataLines
            empty == [n \in 1..Len(dataLines) |-> C5_Empty(dataLines[n])]
            invalid == ArrayOf(ret.invalidRows)
        IN /\ \A n \in 1..Len(dataLines) :
                 empty[n] # {} =>
                    LET errs == C5_ErrorsOfRow(n + 1) IN
                    /\ Len(errs) = 1
                    /\ errs[1].msg = "Missing required fields"
                    /\ {errs[1].names[k] : k \in 1..Len(errs[1].names)} = empty[n]
                    /\ Len(errs[1].names) = Cardinality(empty[n])
                    /\ \E k \in 1..Len(invalid) : invalid[k] = n + 1
           /\ Len(ArrayOf(ret.data)) + Len(invalid) = Len(dataLines)
           /\ Len(ArrayOf(ret.data))
                <= Cardinality({n \in 1..Len(dataLines) : empty[n] = {}})

\* a row with two empty values, one of them a lone quote, before a valid row
C5_Witness ==
    /\ pc = "done"
    /\ layout = CanonicalLayout
    /\ cells = <<CellsRow(CellQuoteOnly, <<SPACE>>, CellPhone, 0),
                 CellsRow(CellAl, CellBo, CellPhone, 0)>>
    /\ ArrayOf(ret.errors)[1].names = <<"First Name", "Last Name">>
    /\ Len(ArrayOf(ret.data)) = 1

\* the numbers of the failing rows: the k-th data row is row k + 1
RECURSIVE In_FailingRows(_, _)
In_FailingRows(ls, k) ==
    IF ls = <<>> THEN <<>>
    ELSE (IF In_Fails(Head(ls)) THEN <<k + 1>> ELSE <<>>)
         \o In_FailingRows(Tail(ls), k + 1)

\* C6: each failing data row gives exactly one number in invalidRows and
\* exactly one string in errors, in row order; the number is the row's
\* position counting the header as row 1 (the k-th data row is row k + 1),
\* and the error string carries the same number.
C6_RowNumbers ==
    (pc = "done" /\ In_Structural) =>
        /\ ArrayOf(ret.invalidRows) = In_FailingRows(In_DataLines, 1)
        /\ Len(ArrayOf(ret.errors)) = Len(ArrayOf(ret.invalidRows))
        /\ \A k \in 1..Len(ArrayOf(ret.errors)) :
              ArrayOf(ret.errors)[k].row = ArrayOf(ret.invalidRows)[k]

\* the second data row has an empty phone: row 3, and the first row is kept
C6_Witness ==
    /\ pc = "done"
    /\ layout = CanonicalLayout
    /\ cells = <<CellsRow(CellAl, CellBo, CellPhone, 0),
                 CellsRow(CellAl, CellBo, <<>>, 0)>>
    /\ ret.success
    /\ ret.invalidRows = Some(<<3>>)
    /\ ArrayOf(ret.errors)[1].names = <<"Phone">>

In_NoCutRow == \A n \in 1..Len(cells) : cells[n].cut = 0

\* C8: the result depends on the header names, not on the column positions:
\* under any order of the columns, any letter case of the header names and
\* any additional column, the result is that of the same data rows under the
\* canonical three columns.
C8_ColumnOrderIrrelevant ==
    (pc = "done" /\ In_Absent = {} /\ In_NoCutRow) =>
        ret = ParseCSVText(RenderText(CanonicalLayout, cells))

\* permuted columns, upper case names and one more column; one row is valid
\* and one fails
C8_Witness ==
    /\ pc = "done"
    /\ layout = [cols |-> <<"P", "E", "L", "F">>, style |-> "upper"]
    /\ Len(cells) = 2
    /\ In_NoCutRow
    /\ ret.success
    /\ ret.errors # None

\* the data lines for which the field splitter gives no field
In_Skipped == {n \in 1..Len(In_DataLines) : Len(ParseCSVRow(In_DataLines[n])) = 0}

\* one iteration of the loop over the data lines: a line without fields
\* leaves the three arrays as they are; any other line adds one entry and
\* nothing else, or one invalid-row number with its error and no entry
C20_RowStep ==
    (pc = "rows" /\ i' = i + 1) =>
        IF Len(ParseCSVRow(lines[i + 1])) = 0
        THEN data' = data /\ errors' = errors /\ invalidRows' = invalidRows
        ELSE \/ /\ Len(data') = Len(data) + 1
                /\ errors' = errors
                /\ invalidRows' = invalidRows
             \/ /\ data' = data
                /\ Len(invalidRows') = Len(invalidRows) + 1
                /\ Len(errors') = Len(errors) + 1

C20_Count ==
    (pc = "done" /\ In_Structural) =>
        Len(ArrayOf(ret.data)) + Len(ArrayOf(ret.invalidRows)) + Cardinality(In_Skipped)
            = Len(In_DataLines)

\* C20: a data line for which the field splitter gives no field is skipped
\* without entry, error or invalid-row number; every other non-empty data
\* line gives exactly one entry or exactly one invalid row; so the entries,
\* the invalid rows and the skipped lines add up to the non-empty data lines.
C20_EveryLineCounted ==
    /\ [][C20_RowStep]_vars
    /\ []C20_Count

\* two data lines, the second of empty cells only: one entry, one invalid row
C20_Witness ==
    /\ pc = "done"
    /\ layout = CanonicalLayout
    /\ cells = <<CellsRow(CellAl, CellBo, CellPhone, 0), CellsRow(<<>>, <<>>, <<>>, 0)>>
    /\ Len(ArrayOf(ret.data)) = 1
    /\ ret.invalidRows = Some(<<3>>)
    /\ In_Skipped = {}

----------------------------------------------------------------------------
(* exportStudentsToCSV and generateSampleCSV                               *)

\* const headers = ['First Name', 'Last Name', 'Phone', 'Status', 'Enrollment Date']
ExportHeaders ==
    << <<"F", "i", "r", "s", "t", SPACE, "N", "a", "m", "e">>,
       <<"L", "a", "s", "t", SPACE, "N", "a", "m", "e">>,
       <<"P", "h", "o", "n", "e">>,
       <<"S", "t", "a", "t", "u", "s">>,
       <<"E", "n", "r", "o", "l", "l", "m", "e", "n", "t", SPACE, "D", "a", "t", "e">> >>

\* `"${value}"`
Quoted(v) == <<QUOTE>> \o v \o <<QUOTE>>

\* The value is quoted only when it holds a comma.
MutExportRowQuotesOnDemand(student) ==
    LET cell(v) == IF \E k \in 1..Len(v) : v[k] = COMMA THEN Quoted(v) ELSE v
    IN Join(<<cell(student.firstName), cell(student.lastName), cell(student.phone),
              cell(student.status), cell(student.enrollmentDate)>>, COMMA)

RECURSIVE MutEscapeQuotes(_)
MutEscapeQuotes(v) ==
    IF v = <<>> THEN <<>>
    ELSE (IF Head(v) = QUOTE THEN <<QUOTE, QUOTE>> ELSE <<Head(v)>>)
         \o MutEscapeQuotes(Tail(v))

\* A double quote of the value is doubled.
MutExportRowEscapes(student) ==
    LET cell(v) == Quoted(MutEscapeQuotes(v))
    IN Join(<<cell(student.firstName), cell(student.lastName), cell(student.phone),
              cell(student.status), cell(student.enrollmentDate)>>, COMMA)

\* [`"${student.firstName}"`, ..., `"${student.enrollmentDate}"`].join(',')
ExportRow(student) ==
    Join(<<Quoted(student.firstName), Quoted(student.lastName), Quoted(student.phone),
           Quoted(student.status), Quoted(student.enrollmentDate)>>, COMMA)

\* The header line is left out.
MutExportContentNoHeader(list) ==
    Join([k \in 1..Len(list) |-> ExportRow(list[k])], NEWLINE)

\* [headers.join(','), ...students.map(...)].join('\n')
ExportContent(list) ==
    Join(<<Join(ExportHeaders, COMMA)>>
            \o [k \in 1..Len(list) |-> ExportRow(list[k])], NEWLINE)

\* An empty list is exported as the header alone.
MutNothingToExportNever(list) == FALSE

\* students.length === 0
NothingToExport(list) == Len(list) = 0

\* the file of link.click(): the blob under the download name
ExportFile(content) ==
    [name |-> "students_export_<date>.csv", type |-> "text/csv;charset=utf-8;",
     content |-> content]

\* const sampleData = [[...], ...] of generateSampleCSV
SampleData ==
    << <<ExportHeaders[1], ExportHeaders[2], ExportHeaders[3]>>,
       << <<"J", "o", "h", "n">>, <<"D", "o", "e">>,
          <<"(", "5", "5", "5", ")", SPACE, "1", "2", "3", "-", "4", "5", "6", "7">> >>,
       << <<"J", "a", "n", "e">>, <<"S", "m", "i", "t", "h">>,
          <<"+", "1", SPACE, "5", "5", "5", SPACE, "9", "8", "7", "-", "6", "5", "4", "3">> >>,
       << <<"M", "i", "c", "h", "a", "e", "l">>, <<"J", "o", "h", "n", "s", "o", "n">>,
          <<"5", "5", "5", "-", "1", "1", "1", "-", "2", "2", "2", "2">> >> >>

\* sampleData.map(row => row.map(cell => `"${cell}"`).join(',')).join('\n')
SampleCSVContent ==
    Join([r \in 1..Len(SampleData) |->
            Join([c \in 1..Len(SampleData[r]) |-> Quoted(SampleData[r][c])], COMMA)],
         NEWLINE)

SampleFile ==
    [name |-> "sample_students_import.csv", type |-> "text/csv;charset=utf-8;",
     content |-> SampleCSVContent]

----------------------------------------------------------------------------
(* parseCSVFile                                                            *)

Pending == [state |-> "pending", value |-> NoResult]

\* resolve(v): settles a pending promise, and does nothing to a settled one
Resolve(p, v) == IF p.state = "pending" THEN [state |-> "fulfilled", value |-> v] ELSE p

\* { success: false, errors: ['Failed to read file'] }
ReadFailedResult ==
    [success |-> FALSE, data |-> None, invalidRows |-> None,
     errors |-> Some(<<ErrorString(0,
        [msg |-> "Failed to read file", names |-> <<>>, value |-> <<>>])>>)]

\* { success: false, errors: ['Failed to read file: ' + error.message] }
ReadThrewResult ==
    [success |-> FALSE, data |-> None, invalidRows |-> None,
     errors |-> Some(<<ErrorString(0,
        [msg |-> "Failed to read file: <error.message>", names |-> <<>>,
         value |-> <<>>])>>)]

\* The read error is thrown out of the promise.
MutOnErrorRejects(p) == [p EXCEPT !.state = "rejected"]

\* reader.onerror = () => resolve({ success: false, errors: ['Failed to read file'] })
OnErrorSettle(p) == Resolve(p, ReadFailedResult)

\* The text handed to the parser lacks its last line.
MutLoadedTextCut(loaded) ==
    LET ls == SplitLines(loaded) IN Join(SubSeq(ls, 1, Len(ls) - 1), NEWLINE)

\* const text = e.target?.result as string
LoadedText(loaded) == loaded

\* return new Promise((resolve) => { const reader = new FileReader(); ...
\* reader.readAsText(file) })
ParseCSVFile ==
    /\ filePc = "idle"
    /\ file # None
    /\ promise' = Pending
    /\ reader' = [readyState |-> "LOADING", result |-> None, error |-> FALSE]
    /\ filePc' = "reading"
    /\ UNCHANGED <<file, settles, rowVars, studentVars, textVars, exportVars, authVars, ctxVars, reqVars>>

\* reader.onload: the read gave the file's text, or an event without a string
\* result, on which text.split throws and the catch block resolves
ReaderOnLoad ==
    /\ filePc = "reading"
    /\ \E loaded \in {Some(file[1].content), None} :
          /\ reader' = [readyState |-> "DONE", result |-> loaded, error |-> FALSE]
          /\ IF loaded = None
             THEN /\ promise' = Resolve(promise, ReadThrewResult)
                  /\ settles' = settles + 1
                  /\ filePc' = "settled"
                  /\ UNCHANGED textVars
             ELSE /\ text' = LoadedText(loaded[1])
                  /\ pc' = "start"
                  /\ ret' = NoResult
                  /\ filePc' = "parsing"
                  /\ UNCHANGED <<promise, settles, layout, cells, lines, headerMap, i,
                                 data, errors, invalidRows>>
    /\ UNCHANGED <<file, rowVars, studentVars, exportVars, authVars, ctxVars, reqVars>>

\* const result = parseCSVText(text); resolve(result)
ReaderResolve ==
    /\ filePc = "parsing"
    /\ pc = "done"
    /\ promise' = Resolve(promise, ret)
    /\ settles' = settles + 1
    /\ filePc' = "settled"
    /\ UNCHANGED <<file, reader, rowVars, studentVars, textVars, exportVars, authVars, ctxVars, reqVars>>

\* reader.onerror
ReaderOnError ==
    /\ filePc = "reading"
    /\ reader' = [readyState |-> "DONE", result |-> None, error |-> TRUE]
    /\ promise' = OnErrorSettle(promise)
    /\ settles' = settles + 1
    /\ filePc' = "settled"
    /\ UNCHANGED <<file, rowVars, studentVars, textVars, exportVars, authVars, ctxVars, reqVars>>

----------------------------------------------------------------------------
(* SpecExport: exportStudentsToCSV, and parseCSVFile on the file it wrote  *)

MaxFieldLen == 3
MaxStudents == 2

ProbeAlphabet == {"5", QUOTE, COMMA, SPACE, NEWLINE}

Probes == SeqsUpTo(ProbeAlphabet, MaxFieldLen)

PhoneStem == <<"5", "5", "5", "5", "5", "5">>

StatusActive == <<"a", "c", "t", "i", "v", "e">>
StatusInactive == <<"i", "n", "a", "c", "t", "i", "v", "e">>

\* a Student, as fetchStudents formats it
BaseStudent ==
    [id |-> "s1", firstName |-> <<"A", "l">>, lastName |-> <<"B", "o">>,
     phone |-> CellPhone, enrollmentDate |-> <<"2", "4", "-", "0", "1">>,
     status |-> StatusActive, userId |-> "u1"]

ProbePositions ==
    {"firstName", "lastName", "phoneEnd", "phoneStart", "status", "enrollmentDate"}

\* the base student with one field replaced
ProbeStudent(pos, v) ==
    CASE pos = "firstName" -> [BaseStudent EXCEPT !.firstName = v]
      [] pos = "lastName" -> [BaseStudent EXCEPT !.lastName = v]
      [] pos = "phoneEnd" -> [BaseStudent EXCEPT !.phone = PhoneStem \o v]
      [] pos = "phoneStart" -> [BaseStudent EXCEPT !.phone = v \o PhoneStem]
      [] pos = "status" -> [BaseStudent EXCEPT !.status = v]
      [] OTHER -> [BaseStudent EXCEPT !.enrollmentDate = v]

StudentJr ==
    [BaseStudent EXCEPT !.id = "s2", !.firstName = <<"J", COMMA, SPACE, "r">>,
                        !.lastName = <<"D", SPACE, "o">>, !.phone = SamplePhoneOk,
                        !.status = StatusInactive]

SampleStudents ==
    { BaseStudent,
      StudentJr,
      [BaseStudent EXCEPT !.id = "s3", !.firstName = <<"x", QUOTE, QUOTE, "y">>],
      [BaseStudent EXCEPT !.id = "s4", !.lastName = <<"B", NEWLINE, "o">>],
      [BaseStudent EXCEPT !.id = "s5", !.phone = CellBadPhone] }

ExportInputs ==
    { <<ProbeStudent(pos, v)>> : pos \in ProbePositions, v \in Probes }
    \cup SeqsUpTo(SampleStudents, MaxStudents)

InitExport ==
    /\ exportStudents \in ExportInputs
    /\ alertMsg = None
    /\ csvContent = None
    /\ download = None
    /\ exportPc = "call"
    /\ RowIdle
    /\ StudentIdle
    /\ TextIdle
    /\ FileIdle
    /\ AuthIdle
    /\ CtxIdle
    /\ ReqIdle

\* exportStudentsToCSV(students); whether the browser knows the download
\* attribute of a link is the browser's
ExportStudentsToCSV ==
    /\ exportPc = "call"
    /\ IF NothingToExport(exportStudents)
       THEN /\ alertMsg' = Some("No students to export")
            /\ UNCHANGED <<csvContent, download>>
       ELSE LET content == ExportContent(exportStudents) IN
            /\ csvContent' = Some(content)
            /\ \E supported \in BOOLEAN :
                  download' = IF supported THEN Some(ExportFile(content)) ELSE None
            /\ alertMsg' = alertMsg
    /\ exportPc' = "done"
    /\ UNCHANGED <<exportStudents, rowVars, studentVars, textVars, fileVars, authVars, ctxVars, reqVars>>

\* the file written is chosen in the import dialog
PickDownload ==
    /\ download # None
    /\ file = None
    /\ file' = download
    /\ UNCHANGED <<reader, filePc, promise, settles, rowVars, studentVars, textVars,
                   exportVars, authVars, ctxVars, reqVars>>

NextExport ==
    \/ ExportStudentsToCSV
    \/ PickDownload
    \/ ParseCSVFile
    \/ ReaderOnLoad
    \/ ReaderOnError
    \/ ReaderResolve
    \/ TextStart
    \/ TextHeader
    \/ TextRow
    \/ TextReturn

SpecExport == InitExport /\ [][NextExport]_vars

----------------------------------------------------------------------------
(* Claims about export and the round trip, under SpecExport                *)

Ex_Has(v, c) == \E k \in 1..Len(v) : v[k] = c

Ex_Fields(st) == {st.firstName, st.lastName, st.phone, st.status, st.enrollmentDate}

Ex_NoneHas(list, c) ==
    \A k \in 1..Len(list) : \A v \in Ex_Fields(list[k]) : ~Ex_Has(v, c)

\* the entry import is to give for a record
Ex_Entry(st) == [firstName |-> st.firstName, lastName |-> st.lastName, phone |-> st.phone]

\* the values import keeps as they are: not empty, no white space at either
\* end, and a phone of the shape import accepts
Ex_Importable(st) ==
    /\ \A v \in {st.firstName, st.lastName, st.phone} : v # <<>> /\ IsTrimmed(v)
    /\ C7_Shape(st.phone, C7_SetWhiteSpace)

C11_RoundTrips ==
    /\ ret.success
    /\ ret.errors = None
    /\ ret.invalidRows = None
    /\ ret.data = Some([k \in 1..Len(exportStudents) |-> Ex_Entry(exportStudents[k])])

\* C11 as claimed: for every non-empty list of records whose fields hold no
\* double quote, parsing the text export builds gives success, no errors, and
\* one entry per record, in order, with the record's first name, last name
\* and phone.
C11_AsClaimed ==
    (pc = "done" /\ exportStudents # <<>> /\ Ex_NoneHas(exportStudents, QUOTE))
        => C11_RoundTrips

\* C11 amended: as claimed, for records whose fields hold no double quote and
\* no line break, and whose first name, last name and phone are not empty,
\* have no white space at either end, and whose phone has the shape import
\* accepts.
C11_RoundTrip ==
    (/\ pc = "done"
     /\ exportStudents # <<>>
     /\ Ex_NoneHas(exportStudents, QUOTE)
     /\ Ex_NoneHas(exportStudents, NEWLINE)
     /\ \A k \in 1..Len(exportStudents) : Ex_Importable(exportStudents[k]))
        => C11_RoundTrips

\* two records, one with a comma in its first name, have come back
C11_Witness ==
    /\ pc = "done"
    /\ exportStudents = <<StudentJr, BaseStudent>>
    /\ ret.data = Some(<<Ex_Entry(StudentJr), Ex_Entry(BaseStudent)>>)

Ex_Imported == {"firstName", "lastName", "phone"}

\* a single record with a double quote in a field: no entry holds the field
C12_Single ==
    (pc = "done" /\ Len(exportStudents) = 1) =>
        \A fld \in Ex_Imported :
            Ex_Has(exportStudents[1][fld], QUOTE) =>
                \A k \in 1..Len(ArrayOf(ret.data)) :
                    ArrayOf(ret.data)[k][fld] # exportStudents[1][fld]

\* the data line of record i gives an entry: where no field holds a line
\* break (so that line i + 1 is the line of record i), the entry holds no
\* field of the record that has a double quote
C12_RowStep ==
    (/\ pc = "rows" /\ i' = i + 1 /\ Len(data') = Len(data) + 1
     /\ Ex_NoneHas(exportStudents, NEWLINE)) =>
        \A fld \in Ex_Imported :
            Ex_Has(exportStudents[i][fld], QUOTE) =>
                data'[Len(data')][fld] # exportStudents[i][fld]

\* C12: export does not escape a double quote, so a record's first name, last
\* name or phone that holds one does not come back: the entry parsed from the
\* record's line, if there is one, holds another value for that field.
C12_QuoteNotRoundTripped ==
    /\ [][C12_RowStep]_vars
    /\ []C12_Single

\* a record with a doubled quote in its first name came back with one quote
C12_Witness ==
    /\ pc = "done"
    /\ Len(exportStudents) = 1
    /\ exportStudents[1].firstName = <<"x", QUOTE, QUOTE, "y">>
    /\ ret.success
    /\ ArrayOf(ret.data)[1].firstName = <<"x", QUOTE, "y">>

C13_HeaderLine ==
    <<"F", "i", "r", "s", "t", " ", "N", "a", "m", "e", ",",
      "L", "a", "s", "t", " ", "N", "a", "m", "e", ",",
      "P", "h", "o", "n", "e", ",", "S", "t", "a", "t", "u", "s", ",",
      "E", "n", "r", "o", "l", "l", "m", "e", "n", "t", " ", "D", "a", "t", "e">>

C13_Line(st) ==
    <<"\"">> \o st.firstName \o <<"\"", ",", "\"">> \o st.lastName
        \o <<"\"", ",", "\"">> \o st.phone \o <<"\"", ",", "\"">> \o st.status
        \o <<"\"", ",", "\"">> \o st.enrollmentDate \o <<"\"">>

C13_LineByLine ==
    LET ls == SplitLines(csvContent[1]) IN
    /\ Len(ls) = Len(exportStudents) + 1
    /\ ls[1] = C13_HeaderLine
    /\ \A k \in 1..Len(exportStudents) : ls[k + 1] = C13_Line(exportStudents[k])

RECURSIVE C13_Rows(_)
C13_Rows(list) ==
    IF list = <<>> THEN <<>>
    ELSE <<"\n">> \o C13_Line(Head(list)) \o C13_Rows(Tail(list))

C13_Exported == exportPc = "done" /\ exportStudents # <<>>

\* C13 as claimed: the export of n >= 1 records has exactly n + 1 lines: the
\* fixed header, then one line per record, in order, holding the record's
\* first name, last name, phone, status and enrollment date, each between
\* double quotes whatever it holds.
C13_AsClaimed == C13_Exported => (csvContent # None /\ C13_LineByLine)

\* C13 amended: the export of n >= 1 records is the fixed header followed,
\* for each record in order, by a line break and the record's five values,
\* each between double quotes whatever it holds, separated by commas; it has
\* exactly n + 1 lines when no value holds a line break.
C13_ExportDocument ==
    C13_Exported =>
        /\ csvContent = Some(C13_HeaderLine \o C13_Rows(exportStudents))
        /\ download # None => download[1].content = csvContent[1]
        /\ Ex_NoneHas(exportStudents, NEWLINE) => C13_LineByLine

\* two records, a comma in a value of one, have been exported in three lines
C13_Witness ==
    /\ exportPc = "done"
    /\ exportStudents = <<StudentJr, BaseStudent>>
    /\ download # None
    /\ Len(SplitLines(download[1].content)) = 3

\* C14: the export of an empty list shows the alert that there are no
\* students to export, builds no CSV content and writes no file; a list that
\* is not empty gives no alert.
C14_NothingToExport ==
    exportPc = "done" =>
        IF exportStudents = <<>>
        THEN /\ alertMsg = Some("No students to export")
             /\ csvContent = None
             /\ download = None
             /\ file = None
        ELSE alertMsg = None /\ csvContent # None

\* the empty list has been handed to the export
C14_Witness ==
    /\ exportPc = "done"
    /\ exportStudents = <<>>
    /\ alertMsg # None

----------------------------------------------------------------------------
(* SpecFile: parseCSVFile on a chosen file                                 *)

MaxFileRows == 1

UserFile(content) == [name |-> "students.csv", type |-> "text/csv", content |-> content]

\* the sample file, the empty file, and the texts of the layouts
FileInputs ==
    {SampleFile, UserFile(<<>>)}
    \cup { UserFile(RenderText(lay, rows)) :
             lay \in Layouts, rows \in SeqsUpTo(RowKinds, MaxFileRows) }

InitFile ==
    /\ file \in {Some(f) : f \in FileInputs}
    /\ reader = <<>>
    /\ filePc = "idle"
    /\ promise = <<>>
    /\ settles = 0
    /\ RowIdle
    /\ StudentIdle
    /\ TextIdle
    /\ ExportIdle
    /\ AuthIdle
    /\ CtxIdle
    /\ ReqIdle

NextFile ==
    \/ ParseCSVFile
    \/ ReaderOnLoad
    \/ ReaderOnError
    \/ ReaderResolve
    \/ TextStart
    \/ TextHeader
    \/ TextRow
    \/ TextReturn

SpecFile == InitFile /\ [][NextFile]_vars

----------------------------------------------------------------------------
(* Claims about parseCSVFile, under SpecFile                               *)

C15_Failure(v) ==
    /\ v.success = FALSE
    /\ v.errors # None
    /\ Len(ArrayOf(v.errors)) = 1
    /\ v.data = None

\* the promise is pending until resolve is called, and resolve is called once
C15_SettlesOnce ==
    /\ filePc \in {"reading", "parsing"} => (promise.state = "pending" /\ settles = 0)
    /\ filePc = "settled" => (promise.state = "fulfilled" /\ settles = 1)
    /\ filePc # "idle" => promise.state # "rejected"

\* a call whose read succeeded is in the parser, which has a step to take,
\* or has returned, and then the promise is resolved
C15_GoesOn == filePc = "parsing" => pc \in {"start", "header", "rows", "done"}

C15_Outcome ==
    filePc = "settled" =>
        IF reader.error \/ reader.result = None
        THEN C15_Failure(promise.value)
        ELSE /\ reader.result = Some(file[1].content)
             /\ promise.value = ParseCSVText(file[1].content)

\* C15: parseCSVFile settles exactly once and never rejects: when the read
\* fails, or the parsing throws, it resolves to success = false with exactly
\* one error string and no data; when the read succeeds it resolves to the
\* outcome of parsing the whole text of the file.
C15_FileSettles == C15_SettlesOnce /\ C15_GoesOn /\ C15_Outcome

\* the sample file has been read and parsed into its three entries
C15_Witness ==
    /\ filePc = "settled"
    /\ file = Some(SampleFile)
    /\ promise.value.success
    /\ Len(ArrayOf(promise.value.data)) = 3
    /\ promise.value.errors = None

----------------------------------------------------------------------------
(* AuthService                                                             *)

MaxCallers == 3
MaxRequests == 3
MaxSignOuts == 1

Callers == 1..MaxCallers

\* Math.floor(Date.now() / 1000), the same for the calls of one run
Now == 1000

\* expiresAt - now < 300
RefreshMargin == 300

\* the expires_at a session may carry: none, just inside and just outside
\* the margin
Expiries == {None, Some(Now + RefreshMargin - 1), Some(Now + RefreshMargin)}

\* session.expires_at || 0
ExpiresAt(s) == IF s.expires_at = None THEN 0 ELSE s.expires_at[1]

\* the first promise number not used yet
UnusedPromises == {p \in 1..MaxRequests : promises[p].state = "unused"}
NewPromise == CHOOSE p \in UnusedPromises : \A q \in UnusedPromises : p <= q

\* the access token of the next refreshed session
NewToken == 2 + Cardinality({p \in 1..MaxRequests : promises[p].state = "fulfilled"})

\* a call of getValidAccessToken that has returned v (None is null)
Returned(v) == [pc |-> "done", awaits |-> 0, result |-> v]

\* a header value; the token is 0 where the value holds none
HeaderValue(scheme, token) == [text |-> scheme, token |-> token]

\* `Bearer ${token}`
Bearer(token) == HeaderValue("Bearer", token)

Header(name, value) == [name |-> name, value |-> value]

\* options.headers of a caller, an object in the order of its keys: the
\* first caller sends an Authorization of its own, the second one spells it
\* in lower case, the others send another header or none
OptionHeaders(c) ==
    CASE c = 1 -> {<<Header("Authorization", HeaderValue("Basic", 0))>>}
      [] c = 2 -> {<<Header("authorization", HeaderValue("Basic", 0))>>}
      [] OTHER -> {<<>>, <<Header("Accept", HeaderValue("application/json", 0))>>}

\* { ...obj, [name]: value }: the value of the key of that very spelling is
\* replaced where it stands, a new key comes last
SetKey(obj, name, value) ==
    IF \E n \in 1..Len(obj) : obj[n].name = name
    THEN [n \in 1..Len(obj) |-> IF obj[n].name = name THEN Header(name, value) ELSE obj[n]]
    ELSE Append(obj, Header(name, value))

\* const headers = { ...options.headers, 'Authorization': `Bearer ${token}`,
\*                   'Content-Type': 'application/json' }
RequestHeaders(optionHeaders, token) ==
    SetKey(SetKey(optionHeaders, "Authorization", Bearer(token)),
           "Content-Type", HeaderValue("application/json", 0))

\* fetch fills the header list of the request from the object: names are
\* compared without regard to case, and the values of one name are combined
\* in the order of the keys
LowerName(name) ==
    CASE name = "Authorization" -> "authorization"
      [] name = "Accept" -> "accept"
      [] name = "Content-Type" -> "content-type"
      [] OTHER -> name

SentValues(obj, name) ==
    LET held == SelectSeq(obj, LAMBDA h : LowerName(h.name) = LowerName(name))
    IN [n \in 1..Len(held) |-> held[n].value]

\* catch (error) { ...; return null } of getValidAccessToken: an exception of
\* getSession, or the error that refreshAccessToken rethrows to a call that
\* found the refresh pending, ends the call with null
MutCatchRethrows == [pc |-> "threw", awaits |-> 0, result |-> None]

CatchReturnsNull == Returned(None)

\* this.refreshPromise = null, in the finally block of the call that made the
\* promise p and in the catch block of a call that found it pending
MutHandleKept(p) == Some(p)

HandleReleased(p) == None

\* expiresAt - now < 300
MutNeedsRefreshAtMargin(s) == ExpiresAt(s) - Now <= RefreshMargin

NeedsRefresh(s) == ExpiresAt(s) - Now < RefreshMargin

InitAuth ==
    /\ session \in {None} \cup {Some([access_token |-> 1, expires_at |-> e]) : e \in Expiries}
    /\ refreshPromise = None
    /\ promises = [p \in 1..MaxRequests |-> [state |-> "unused", token |-> 0]]
    /\ requests = {}
    /\ callers = [c \in Callers |-> [pc |-> "idle", awaits |-> 0, result |-> None]]
    /\ signOuts = [k \in 1..MaxSignOuts |-> "idle"]
    /\ RowIdle
    /\ StudentIdle
    /\ TextIdle
    /\ ExportIdle
    /\ FileIdle
    /\ CtxIdle
    /\ apiCalls = [c \in Callers |-> [pc |-> "idle", headers |-> <<>>]]
    /\ fetches = {}

\* getValidAccessToken(), up to await supabase.auth.getSession()
GetValidAccessToken(c) ==
    /\ callers[c].pc = "idle"
    /\ callers' = [callers EXCEPT ![c].pc = "getSession"]
    /\ UNCHANGED <<session, refreshPromise, promises, requests, signOuts,
                   rowVars, studentVars, textVars, exportVars, fileVars, ctxVars, reqVars>>

\* refreshAccessToken(), up to its await: the pending promise is awaited, or
\* performTokenRefresh() is called, which sends refreshSession, and its
\* promise is kept and awaited
RefreshAccessToken(c) ==
    IF refreshPromise # None
    THEN /\ callers' = [callers EXCEPT ![c] =
                          [pc |-> "awaitShared", awaits |-> refreshPromise[1],
                           result |-> None]]
         /\ UNCHANGED <<refreshPromise, promises, requests>>
    ELSE /\ UnusedPromises # {}
         /\ promises' = [promises EXCEPT ![NewPromise].state = "pending"]
         /\ requests' = requests \cup {NewPromise}
         /\ refreshPromise' = Some(NewPromise)
         /\ callers' = [callers EXCEPT ![c] =
                          [pc |-> "awaitOwn", awaits |-> NewPromise, result |-> None]]

\* getSession() settles and getValidAccessToken goes on: null on an error,
\* an exception or no session; the refresh when fewer than 300 seconds are
\* left; the session's token otherwise
GetSessionSettles(c) ==
    /\ callers[c].pc = "getSession"
    /\ \E outcome \in {"session", "error", "throw"} :
          IF outcome = "throw"
          THEN /\ callers' = [callers EXCEPT ![c] = CatchReturnsNull]
               /\ UNCHANGED <<refreshPromise, promises, requests>>
          ELSE IF outcome = "error" \/ session = None
          THEN /\ callers' = [callers EXCEPT ![c] = Returned(None)]
               /\ UNCHANGED <<refreshPromise, promises, requests>>
          ELSE IF NeedsRefresh(session[1])
          THEN RefreshAccessToken(c)
          ELSE /\ callers' = [callers EXCEPT ![c] = Returned(Some(session[1].access_token))]
               /\ UNCHANGED <<refreshPromise, promises, requests>>
    /\ UNCHANGED <<session, signOuts, rowVars, studentVars, textVars, exportVars, fileVars, ctxVars, reqVars>>

\* refreshSession() of promise p settles: performTokenRefresh returns the
\* tokens or throws, and the calls awaiting p go on in the order they began
\* to wait.  The call that made p returns the token, or null, and its
\* finally block sets refreshPromise to null; a call that found p pending
\* returns the token, or sets refreshPromise to null and rethrows, which
\* getValidAccessToken catches and turns into null.
RefreshSessionSettles(p) ==
    /\ p \in requests
    /\ \E ok \in BOOLEAN :
          IF ok
          THEN /\ session # None
               /\ \E e \in Expiries :
                     session' = Some([access_token |-> NewToken, expires_at |-> e])
               /\ promises' = [promises EXCEPT ![p] =
                                  [state |-> "fulfilled", token |-> NewToken]]
               /\ callers' = [c \in Callers |->
                                IF callers[c].awaits = p
                                THEN Returned(Some(NewToken)) ELSE callers[c]]
          ELSE /\ session' = session
               /\ promises' = [promises EXCEPT ![p].state = "rejected"]
               /\ callers' = [c \in Callers |->
                                IF callers[c].awaits # p THEN callers[c]
                                ELSE IF callers[c].pc = "awaitOwn" THEN Returned(None)
                                ELSE CatchReturnsNull]
    /\ requests' = requests \ {p}
    /\ refreshPromise' = HandleReleased(p)
    /\ UNCHANGED <<signOuts, rowVars, studentVars, textVars, exportVars, fileVars, ctxVars, reqVars>>

\* signOut(), up to await supabase.auth.signOut()
SignOut(k) ==
    /\ signOuts[k] = "idle"
    /\ refreshPromise' = None
    /\ signOuts' = [signOuts EXCEPT ![k] = "remote"]
    /\ UNCHANGED <<session, promises, requests, callers,
                   rowVars, studentVars, textVars, exportVars, fileVars, ctxVars, reqVars>>

\* supabase.auth.signOut() settles: the session is gone, or an error left it
SignOutSettles(k) ==
    /\ signOuts[k] = "remote"
    /\ \E ok \in BOOLEAN : session' = IF ok THEN None ELSE session
    /\ signOuts' = [signOuts EXCEPT ![k] = "done"]
    /\ UNCHANGED <<refreshPromise, promises, requests, callers,
                   rowVars, studentVars, textVars, exportVars, fileVars, ctxVars, reqVars>>

\* makeAuthenticatedRequest(url, options), up to the await of
\* getValidAccessToken(), whose first step it takes
MakeAuthenticatedRequest(c, optionHeaders) ==
    /\ callers[c].pc = "idle"
    /\ apiCalls[c].pc = "idle"
    /\ callers' = [callers EXCEPT ![c].pc = "getSession"]
    /\ apiCalls' = [apiCalls EXCEPT ![c] = [pc |-> "token", headers |-> optionHeaders]]
    /\ UNCHANGED <<session, refreshPromise, promises, requests, signOuts, fetches,
                   rowVars, studentVars, textVars, exportVars, fileVars, ctxVars>>

\* makeAuthenticatedRequest after its await: it throws 'No valid access token
\* available' without a token, and calls fetch with the headers otherwise
RequestContinues(c) ==
    /\ apiCalls[c].pc = "token"
    /\ callers[c].pc \in {"done", "threw"}
    /\ IF callers[c].pc = "threw" \/ callers[c].result = None
       THEN /\ apiCalls' = [apiCalls EXCEPT ![c].pc = "threw"]
            /\ fetches' = fetches
       ELSE /\ apiCalls' = [apiCalls EXCEPT ![c].pc = "fetched"]
            /\ fetches' = fetches \cup
                  {[caller |-> c, token |-> callers[c].result[1],
                    headers |-> RequestHeaders(apiCalls[c].headers, callers[c].result[1])]}
    /\ UNCHANGED <<session, refreshPromise, promises, requests, signOuts, callers,
                   rowVars, studentVars, textVars, exportVars, fileVars, ctxVars>>

NextAuth ==
    \/ \E c \in Callers : GetValidAccessToken(c)
    \/ \E c \in Callers : \E h \in OptionHeaders(c) : MakeAuthenticatedRequest(c, h)
    \/ \E c \in Callers : RequestContinues(c)
    \/ \E c \in Callers : GetSessionSettles(c)
    \/ \E p \in 1..MaxRequests : RefreshSessionSettles(p)
    \/ \E k \in 1..MaxSignOuts : SignOut(k)
    \/ \E k \in 1..MaxSignOuts : SignOutSettles(k)

SpecAuth == InitAuth /\ [][NextAuth]_vars

----------------------------------------------------------------------------
(* Claims about AuthService, under SpecAuth                                *)

Au_Awaiting == {c \in Callers : callers[c].pc \in {"awaitOwn", "awaitShared"}}

\* C16: single-flight token refresh: under any interleaving of calls of
\* getValidAccessToken and of signOut, at most one refreshSession request
\* started by performTokenRefresh is outstanding at any time, and the calls
\* that wait for a refresh all wait for that same one.
C16_SingleFlight ==
    /\ Cardinality(requests) <= 1
    /\ \A c \in Au_Awaiting : \A d \in Au_Awaiting : callers[c].awaits = callers[d].awaits
    /\ \A c \in Au_Awaiting : callers[c].awaits \in requests

Au_Settled(p) == promises[p].state \in {"fulfilled", "rejected"}

\* the call c stops waiting for a refresh in this step
Au_StopsWaiting(c) == c \in Au_Awaiting /\ callers'[c].pc # callers[c].pc

\* the call c gets its session in this step
Au_GotSession(c) == callers[c].pc = "getSession" /\ callers'[c].pc # "getSession"

C22_Step ==
    \A c \in Callers :
        /\ callers'[c].pc # "threw"
        /\ Au_StopsWaiting(c) =>
              LET p == callers[c].awaits IN
              /\ promises[p].state = "pending"
              /\ promises'[p].state \in {"fulfilled", "rejected"}
              /\ callers'[c].pc = "done"
              /\ callers'[c].result = IF promises'[p].state = "fulfilled"
                                      THEN Some(promises'[p].token) ELSE None
              /\ \A d \in Callers : callers[d].awaits = p => Au_StopsWaiting(d)
        /\ Au_GotSession(c) /\ callers'[c].pc = "done" =>
              \/ callers'[c].result = None
              \/ session # None /\ callers'[c].result = Some(session[1].access_token)

\* C22: getValidAccessToken never rejects: a call ends with null after a
\* getSession error, a missing session, an exception or a failed refresh,
\* both the call that started the refresh and every call that waited for
\* the same one; when the refresh succeeds all of them end with its token.
C22_NeverRejects == [][C22_Step]_vars /\ [](\A c \in Callers : callers[c].pc # "threw")

\* two calls have ended with the token of the one refresh that was made
C22_Witness ==
    /\ \E p \in 1..MaxRequests :
          /\ promises[p].state = "fulfilled"
          /\ \A q \in 1..MaxRequests : q # p => promises[q].state = "unused"
          /\ \E c, d \in Callers :
                /\ c # d
                /\ callers[c] = Returned(Some(promises[p].token))
                /\ callers[d] = Returned(Some(promises[p].token))
    /\ session # None /\ NeedsRefresh(session[1])

C23_Step ==
    /\ (requests' # requests /\ requests' \subseteq requests) => refreshPromise' = None
    /\ \A c \in Callers :
          Au_GotSession(c) /\ callers'[c].pc \in {"awaitOwn", "awaitShared"}
             => LET p == callers'[c].awaits IN
                /\ promises'[p].state = "pending"
                /\ refreshPromise = None =>
                      /\ callers'[c].pc = "awaitOwn"
                      /\ promises[p].state = "unused"
                      /\ p \notin requests
                      /\ requests' = requests \cup {p}

C24_Margin ==
    \A c \in Callers :
        Au_GotSession(c) =>
           /\ session # None /\ ExpiresAt(session[1]) >= Now + RefreshMargin
                 => /\ requests' = requests
                    /\ callers'[c] \in {Returned(Some(session[1].access_token)), Returned(None)}
           /\ session # None /\ ExpiresAt(session[1]) < Now + RefreshMargin
                 => \/ callers'[c] = Returned(None) /\ requests' = requests
                    \/ /\ callers'[c].pc \in {"awaitOwn", "awaitShared"}
                       /\ callers'[c].awaits \in requests'
           /\ session # None /\ session[1].expires_at = None
                 => callers'[c].pc # "done" \/ callers'[c].result = None
           /\ callers'[c].pc = "done" /\ callers'[c].result # None
                 => /\ session # None
                    /\ ExpiresAt(session[1]) >= Now + RefreshMargin
                    /\ callers'[c].result = Some(session[1].access_token)

\* C24 as claimed: the margin, and every call that had to refresh returns the
\* refreshed token.
C24_AsClaimed ==
    [][/\ C24_Margin
       /\ \A c \in Callers : Au_StopsWaiting(c) => callers'[c].result # None]_vars

\* C24: getValidAccessToken returns the session's token without a call of
\* refreshSession exactly when expires_at is at least 300 seconds after now;
\* with fewer seconds left, or without expires_at (taken as 0), it waits for
\* a refresh and returns the refreshed token, or null when the refresh fails.
C24_MarginAndRefresh ==
    [][/\ C24_Margin
       /\ \A c \in Callers :
             Au_StopsWaiting(c) =>
                callers'[c].result =
                   IF promises'[callers[c].awaits].state = "fulfilled"
                   THEN Some(promises'[callers[c].awaits].token) ELSE None]_vars

\* a session just inside the margin, whose refresh failed: the call ended
\* with null; and a call that found a session just outside it
C24_Witness ==
    /\ \E p \in 1..MaxRequests : promises[p].state = "rejected"
    /\ \E p \in 1..MaxRequests : promises[p].state = "fulfilled"
    /\ \E c \in Callers : callers[c] = Returned(None)
    /\ session # None
    /\ session[1].expires_at = Some(Now + RefreshMargin)
    /\ \E c \in Callers :
          /\ callers[c] = Returned(Some(session[1].access_token))
          /\ apiCalls[c].pc = "idle"

\* C25: makeAuthenticatedRequest never sends a request without a token: a
\* request is handed to fetch only with the token that getValidAccessToken
\* returned, its Authorization header is 'Bearer <that token>' and nothing
\* else, also when the caller sent an Authorization header of its own, and a
\* call without a token throws and hands nothing to fetch.
C25_BearerOnly ==
    /\ \A f \in fetches :
          /\ callers[f.caller].result = Some(f.token)
          /\ apiCalls[f.caller].pc = "fetched"
          /\ SentValues(f.headers, "Authorization") = <<Bearer(f.token)>>
    /\ \A c \in Callers :
          /\ apiCalls[c].pc = "threw"
                => callers[c].result = None /\ \A f \in fetches : f.caller # c
          /\ apiCalls[c].pc = "fetched" => \E f \in fetches : f.caller = c

----------------------------------------------------------------------------
(* StudentsProvider (contexts/StudentsContext.tsx) and the handlers of the *)
(* Students page (pages/Students.tsx).  A call of one of the context's     *)
(* async functions is an entry of ops: it keeps what the closure of its    *)
(* render captured (user, refreshTimeoutId), the request that is in flight *)
(* and, once the remote side has run it, the answer that is on its way.    *)
(* The component renders again after every step, so that a handler that    *)
(* starts reads the current user and the current refreshTimeoutId.         *)

MaxOps == 2
MaxUserChanges == 2
MaxDay == 1

Users == {"u1", "u2"}

\* interface Student; a row of the table has the same columns in snake case
StudentRow(id, firstName, lastName, phone, enrollmentDate, status, userId) ==
    [id |-> id, firstName |-> firstName, lastName |-> lastName, phone |-> phone,
     enrollmentDate |-> enrollmentDate, status |-> status, userId |-> userId]

\* the object handed to .insert() by addStudent and by importStudents
MutInsertPayloadFirstDay(studentData, uid, date) ==
    [firstName |-> studentData.firstName, lastName |-> studentData.lastName,
     phone |-> studentData.phone, userId |-> uid, enrollmentDate |-> 0,
     status |-> "active"]

InsertPayload(studentData, uid, date) ==
    [firstName |-> studentData.firstName, lastName |-> studentData.lastName,
     phone |-> studentData.phone, userId |-> uid, enrollmentDate |-> date,
     status |-> "active"]

\* const updateData: any = {}; if (studentData.x) updateData.x = studentData.x
\* (an absent or empty value is falsy and is left out; a status, when there is
\* one, is 'active' or 'inactive')
Truthy(opt) == IF opt # None /\ opt[1] # <<>> THEN opt ELSE None

UpdateData(studentData) ==
    [firstName |-> Truthy(studentData.firstName),
     lastName |-> Truthy(studentData.lastName),
     phone |-> Truthy(studentData.phone),
     status |-> studentData.status]

\* the argument of updateStudent, a Partial<Student>
PartialStudent(firstName, lastName, phone, status) ==
    [firstName |-> firstName, lastName |-> lastName, phone |-> phone, status |-> status]

\* the remote row after .update(updateData)
ApplyUpdate(r, updateData) ==
    [r EXCEPT !.firstName = IF updateData.firstName # None THEN updateData.firstName[1] ELSE @,
              !.lastName = IF updateData.lastName # None THEN updateData.lastName[1] ELSE @,
              !.phone = IF updateData.phone # None THEN updateData.phone[1] ELSE @,
              !.status = IF updateData.status # None THEN updateData.status[1] ELSE @]

RECURSIVE Reversed(_)
Reversed(q) == IF q = <<>> THEN <<>> ELSE Append(Reversed(Tail(q)), Head(q))

OwnedBy(r, uid) == r.userId = uid

\* .select('*').eq('user_id', user.id).order('created_at', { ascending: false })
SelectRows(rows, uid) == Reversed(SelectSeq(rows, LAMBDA r : OwnedBy(r, uid)))

\* .eq('id', id).eq('user_id', user.id)
Matches(r, id, uid) == r.id = id /\ r.userId = uid

HasMatch(rows, id, uid) == \E n \in 1..Len(rows) : Matches(rows[n], id, uid)

\* { data, error } of a remote call
Answer(ok, rows) == [ok |-> ok, rows |-> rows]

\* no answer yet
NoAnswer == Answer(TRUE, <<>>)

\* a call in flight
Op(kind, uid, timeoutId, target, payload, entries) ==
    [kind |-> kind, user |-> uid, timeoutId |-> timeoutId, phase |-> "remote",
     target |-> target, payload |-> payload, entries |-> entries, k |-> 0,
     successCount |-> 0, failedCount |-> 0, errors |-> <<>>,
     answer |-> NoAnswer, outcome |-> "pending"]

\* a call that has returned or thrown keeps what its caller sees
Finished(op, outcome) ==
    [op EXCEPT !.phase = "done", !.payload = <<>>, !.answer = Answer(op.answer.ok, <<>>),
               !.outcome = outcome, !.user = "", !.timeoutId = 0, !.target = <<>>]

\* the id the table gives the row of the n-th insert of call k
NewId(k, n) == <<k, n>>

NotAuthenticated == "User not authenticated"

\* error.message || 'Failed to ...'
RemoteMessage == "remote error"

\* the variables of the other parts
outerVars == <<rowVars, studentVars, textVars, exportVars, fileVars, authVars, reqVars>>

\* what only a render and the unmount change, and the other parts
otherVars == <<mounted, rendered, outerVars>>

\* the component is mounted and has rendered its latest state: the handlers
\* of the page and the effects run in such a state
Rendered == mounted /\ rendered = refreshTimeoutId

\* a state setter does nothing once the component is unmounted
SetState(old, new) == IF mounted THEN new ELSE old

\* scheduleAutoRefresh() in the closure of call k: clearTimeout of the
\* refreshTimeoutId that closure captured, setTimeout of the fetchStudents of
\* that closure, setRefreshTimeoutId
ScheduleAutoRefresh(k) ==
    /\ timers' = {t \in timers : t.id # ops[k].timeoutId}
                 \cup {[id |-> k, user |-> ops[k].user]}
    /\ refreshTimeoutId' = SetState(refreshTimeoutId, k)

\* try { setLoading(true); setError(null); await supabase ... }
StartCall(op) ==
    /\ Len(ops) < MaxOps
    /\ ops' = Append(ops, op)
    /\ loading' = SetState(loading, TRUE)
    /\ error' = SetState(error, None)

\* fetchStudents() in a closure whose user is uid
FetchStudents(uid) ==
    /\ StartCall(Op("fetch", uid, refreshTimeoutId, <<>>, <<>>, <<>>))
    /\ UNCHANGED <<store, students, refreshTimeoutId, timers, today>>

\* the rows the remote table holds when the provider is mounted
RowZoe(uid) == StudentRow(<<0, 1>>, <<"Z">>, <<"o">>, <<"5">>, 0, "active", uid)
RowYan(uid) == StudentRow(<<0, 2>>, <<"Y">>, <<"a">>, <<"7">>, 0, "inactive", uid)

InitialStores == {<<>>, <<RowZoe("u1"), RowYan("u2")>>}

\* the provider is mounted without a user, or with user u1 and the first
\* fetchStudents of the effect on [user] done
InitStudents ==
    /\ RowIdle /\ StudentIdle /\ TextIdle /\ ExportIdle /\ FileIdle /\ AuthIdle
    /\ ReqIdle
    /\ user \in {None, Some("u1")}
    /\ store \in InitialStores
    /\ students = IF user = None THEN <<>> ELSE SelectRows(store, user[1])
    /\ loading = FALSE
    /\ error = None
    /\ refreshTimeoutId = 0
    /\ timers = {}
    /\ ops = <<>>
    /\ today = 0
    /\ userChanges = 0
    /\ mounted = TRUE
    /\ rendered = 0

\* useAuth() yields another user (sign-in, sign-out, another account), and the
\* effect on [user] runs: fetchStudents() with a user, setStudents([]) without
UserChanges(next) ==
    /\ Rendered
    /\ next # user
    /\ userChanges < MaxUserChanges
    /\ userChanges' = userChanges + 1
    /\ user' = next
    /\ IF next # None
       THEN FetchStudents(next[1])
       ELSE /\ students' = <<>>
            /\ UNCHANGED <<store, loading, error, refreshTimeoutId, timers, ops, today>>
    /\ UNCHANGED otherVars

\* the day changes
Tick ==
    /\ today < MaxDay
    /\ today' = today + 1
    /\ UNCHANGED <<user, store, students, loading, error, refreshTimeoutId, timers,
                   ops, userChanges, otherVars>>

\* setTimeout(() => { fetchStudents(); }, 300) runs
TimerFires(t) ==
    /\ t \in timers
    /\ timers' = timers \ {t}
    /\ StartCall(Op("fetch", t.user, refreshTimeoutId, <<>>, <<>>, <<>>))
    /\ UNCHANGED <<user, store, students, refreshTimeoutId, today, userChanges, otherVars>>

\* what a step of the context leaves alone besides the context's own state
others == <<user, userChanges, otherVars>>

\* a call that ends before its first await
Ended(kind, entries, outcome) == Finished(Op(kind, "", 0, <<>>, <<>>, entries), outcome)

\* if (!user) { setError('User not authenticated'); return; }
MutUnauthenticatedSilent(kind) ==
    /\ Len(ops) < MaxOps
    /\ ops' = Append(ops, Ended(kind, <<>>, "returned"))
    /\ UNCHANGED <<store, students, loading, error, refreshTimeoutId, timers, today>>

Unauthenticated(kind) ==
    /\ Len(ops) < MaxOps
    /\ ops' = Append(ops, Ended(kind, <<>>, "returned"))
    /\ error' = Some(NotAuthenticated)
    /\ UNCHANGED <<store, students, loading, refreshTimeoutId, timers, today>>

\* addStudent(studentData), up to the await of the insert
AddStudent(studentData) ==
    IF user = None THEN Unauthenticated("add")
    ELSE /\ StartCall(Op("add", user[1], refreshTimeoutId, <<>>,
                         InsertPayload(studentData, user[1], today), <<>>))
         /\ UNCHANGED <<store, students, refreshTimeoutId, timers, today>>

\* updateStudent(id, studentData), up to the await of the update
UpdateStudent(id, studentData) ==
    IF user = None THEN Unauthenticated("update")
    ELSE /\ StartCall(Op("update", user[1], refreshTimeoutId, id,
                         UpdateData(studentData), <<>>))
         /\ UNCHANGED <<store, students, refreshTimeoutId, timers, today>>

\* deleteStudent(id), up to the await of the delete
DeleteStudent(id) ==
    IF user = None THEN Unauthenticated("delete")
    ELSE /\ StartCall(Op("delete", user[1], refreshTimeoutId, id, <<>>, <<>>))
         /\ UNCHANGED <<store, students, refreshTimeoutId, timers, today>>

\* importStudents(studentsData), up to its first await: the first insert, or
\* fetchStudents() when the list is empty; without a user it throws at once
ImportStudents(studentsData) ==
    IF user = None
    THEN /\ Len(ops) < MaxOps
         /\ ops' = Append(ops, Ended("import", studentsData, "threw"))
         /\ UNCHANGED <<store, students, loading, error, refreshTimeoutId, timers, today>>
    ELSE /\ StartCall(
                IF Len(studentsData) = 0
                THEN [Op("import", user[1], refreshTimeoutId, <<>>, <<>>, studentsData)
                         EXCEPT !.phase = "fetchRemote"]
                ELSE Op("import", user[1], refreshTimeoutId, <<>>,
                        InsertPayload(studentsData[1], user[1], today), studentsData))
         /\ UNCHANGED <<store, students, refreshTimeoutId, timers, today>>

\* the remote side runs .insert(payload): the table gets a row with a new id
RemoteInsert(k) ==
    /\ k \in 1..Len(ops)
    /\ ops[k].kind \in {"add", "import"}
    /\ ops[k].phase = "remote"
    /\ \E ok \in BOOLEAN :
          LET p == ops[k].payload
              inserted == StudentRow(NewId(k, ops[k].k + 1), p.firstName, p.lastName, p.phone,
                                     p.enrollmentDate, p.status, p.userId)
          IN IF ok
             THEN /\ store' = Append(store, inserted)
                  /\ ops' = [ops EXCEPT ![k].phase = "answered",
                                        ![k].answer = Answer(TRUE, <<inserted>>)]
             ELSE /\ store' = store
                  /\ ops' = [ops EXCEPT ![k].phase = "answered",
                                        ![k].answer = Answer(FALSE, <<>>)]
    /\ UNCHANGED <<students, loading, error, refreshTimeoutId, timers, today, others>>

\* the remote side runs .update(updateData).eq('id', id).eq('user_id', user.id)
\* .select().single(): an error when no row matches
RemoteUpdate(k) ==
    /\ k \in 1..Len(ops)
    /\ ops[k].kind = "update"
    /\ ops[k].phase = "remote"
    /\ \E ok \in BOOLEAN :
          IF ok /\ HasMatch(store, ops[k].target, ops[k].user)
          THEN LET n == CHOOSE n \in 1..Len(store) : Matches(store[n], ops[k].target, ops[k].user)
                   updated == ApplyUpdate(store[n], ops[k].payload)
               IN /\ store' = [store EXCEPT ![n] = updated]
                  /\ ops' = [ops EXCEPT ![k].phase = "answered",
                                        ![k].answer = Answer(TRUE, <<updated>>)]
          ELSE /\ store' = store
               /\ ops' = [ops EXCEPT ![k].phase = "answered",
                                     ![k].answer = Answer(FALSE, <<>>)]
    /\ UNCHANGED <<students, loading, error, refreshTimeoutId, timers, today, others>>

\* the remote side runs .delete().eq('id', id).eq('user_id', user.id)
RemoteDelete(k) ==
    /\ k \in 1..Len(ops)
    /\ ops[k].kind = "delete"
    /\ ops[k].phase = "remote"
    /\ \E ok \in BOOLEAN :
          IF ok
          THEN /\ store' = SelectSeq(store, LAMBDA r : ~Matches(r, ops[k].target, ops[k].user))
               /\ ops' = [ops EXCEPT ![k].phase = "answered",
                                     ![k].answer = Answer(TRUE, <<>>)]
          ELSE /\ store' = store
               /\ ops' = [ops EXCEPT ![k].phase = "answered",
                                     ![k].answer = Answer(FALSE, <<>>)]
    /\ UNCHANGED <<students, loading, error, refreshTimeoutId, timers, today, others>>

\* the remote side runs the select of fetchStudents, called on its own or at
\* the end of importStudents
RemoteSelect(k) ==
    /\ k \in 1..Len(ops)
    /\ \/ ops[k].kind = "fetch" /\ ops[k].phase = "remote"
       \/ ops[k].kind = "import" /\ ops[k].phase = "fetchRemote"
    /\ \E ok \in BOOLEAN :
          ops' = [ops EXCEPT ![k].phase = IF ops[k].kind = "fetch" THEN "answered"
                                          ELSE "fetchAnswered",
                             ![k].answer = IF ok THEN Answer(TRUE, SelectRows(store, ops[k].user))
                                           ELSE Answer(FALSE, <<>>)]
    /\ UNCHANGED <<store, students, loading, error, refreshTimeoutId, timers, today, others>>

\* fetchStudents after its await: setStudents(formattedStudents), or
\* setError(...) in the catch; setLoading(false) in the finally
FetchContinues(k) ==
    /\ IF ops[k].answer.ok
       THEN students' = SetState(students, ops[k].answer.rows) /\ error' = error
       ELSE students' = students /\ error' = SetState(error, Some(RemoteMessage))
    /\ loading' = SetState(loading, FALSE)

FetchSettles(k) ==
    /\ k \in 1..Len(ops)
    /\ ops[k].kind = "fetch"
    /\ ops[k].phase = "answered"
    /\ FetchContinues(k)
    /\ ops' = [ops EXCEPT ![k] = Finished(ops[k], "returned")]
    /\ UNCHANGED <<store, refreshTimeoutId, timers, today, others>>

\* what addStudent, updateStudent and deleteStudent do when the remote call
\* failed: setError(...), throw error, setLoading(false)
MutMutationFailsQuietly(k) ==
    /\ error' = SetState(error, Some(RemoteMessage))
    /\ loading' = SetState(loading, FALSE)
    /\ ops' = [ops EXCEPT ![k] = Finished(ops[k], "returned")]
    /\ UNCHANGED <<students, refreshTimeoutId, timers>>

MutationFails(k) ==
    /\ error' = SetState(error, Some(RemoteMessage))
    /\ loading' = SetState(loading, FALSE)
    /\ ops' = [ops EXCEPT ![k] = Finished(ops[k], "threw")]
    /\ UNCHANGED <<students, refreshTimeoutId, timers>>

\* addStudent after its await
AddSettles(k) ==
    /\ k \in 1..Len(ops)
    /\ ops[k].kind = "add"
    /\ ops[k].phase = "answered"
    /\ IF ops[k].answer.ok
       THEN /\ students' = SetState(students, <<ops[k].answer.rows[1]>> \o students)
            /\ ScheduleAutoRefresh(k)
            /\ loading' = SetState(loading, FALSE)
            /\ ops' = [ops EXCEPT ![k] = Finished(ops[k], "returned")]
            /\ error' = error
       ELSE MutationFails(k)
    /\ UNCHANGED <<store, today, others>>

\* updateStudent after its await
UpdateSettles(k) ==
    /\ k \in 1..Len(ops)
    /\ ops[k].kind = "update"
    /\ ops[k].phase = "answered"
    /\ IF ops[k].answer.ok
       THEN /\ students' = SetState(students,
                                    [n \in 1..Len(students) |->
                                        IF students[n].id = ops[k].target
                                        THEN ops[k].answer.rows[1] ELSE students[n]])
            /\ ScheduleAutoRefresh(k)
            /\ loading' = SetState(loading, FALSE)
            /\ ops' = [ops EXCEPT ![k] = Finished(ops[k], "returned")]
            /\ error' = error
       ELSE MutationFails(k)
    /\ UNCHANGED <<store, today, others>>

\* deleteStudent after its await
DeleteSettles(k) ==
    /\ k \in 1..Len(ops)
    /\ ops[k].kind = "delete"
    /\ ops[k].phase = "answered"
    /\ IF ops[k].answer.ok
       THEN /\ students' = SetState(students,
                                    SelectSeq(students, LAMBDA r : r.id # ops[k].target))
            /\ ScheduleAutoRefresh(k)
            /\ loading' = SetState(loading, FALSE)
            /\ ops' = [ops EXCEPT ![k] = Finished(ops[k], "returned")]
            /\ error' = error
       ELSE MutationFails(k)
    /\ UNCHANGED <<store, today, others>>

\* if (error) { failedCount++; errors.push(`${firstName} ${lastName}: ...`) }
\* else { successCount++ }, and the same in the catch of the insert
MutCountInsertWithoutMessage(op) ==
    [op EXCEPT !.k = @ + 1,
               !.successCount = IF op.answer.ok THEN @ + 1 ELSE @,
               !.failedCount = IF op.answer.ok THEN @ ELSE @ + 1,
               !.answer = NoAnswer]

CountInsert(op) ==
    [op EXCEPT !.k = @ + 1,
               !.successCount = IF op.answer.ok THEN @ + 1 ELSE @,
               !.failedCount = IF op.answer.ok THEN @ ELSE @ + 1,
               !.errors = IF op.answer.ok THEN @
                          ELSE Append(@, op.entries[op.k + 1].firstName \o <<SPACE>>
                                         \o op.entries[op.k + 1].lastName),
               !.answer = NoAnswer]

\* importStudents after the await of an insert: count it, then the next
\* insert, or await fetchStudents() after the last one
ImportInsertSettles(k) ==
    /\ k \in 1..Len(ops)
    /\ ops[k].kind = "import"
    /\ ops[k].phase = "answered"
    /\ LET op == ops[k]
           counted == CountInsert(op)
       IN IF counted.k < Len(op.entries)
          THEN /\ ops' = [ops EXCEPT ![k] =
                            [counted EXCEPT !.phase = "remote",
                                            !.payload = InsertPayload(op.entries[counted.k + 1],
                                                                      op.user, today)]]
               /\ UNCHANGED <<loading, error>>
          ELSE /\ ops' = [ops EXCEPT ![k] = [counted EXCEPT !.phase = "fetchRemote",
                                                            !.payload = <<>>]]
               /\ loading' = SetState(loading, TRUE)
               /\ error' = SetState(error, None)
    /\ UNCHANGED <<store, students, refreshTimeoutId, timers, today, others>>

\* importStudents after the await of fetchStudents(): the rest of
\* fetchStudents, then return { success, failed, errors } and the finally
ImportFetchSettles(k) ==
    /\ k \in 1..Len(ops)
    /\ ops[k].kind = "import"
    /\ ops[k].phase = "fetchAnswered"
    /\ FetchContinues(k)
    /\ ops' = [ops EXCEPT ![k] = Finished(ops[k], "returned")]
    /\ UNCHANGED <<store, refreshTimeoutId, timers, today, others>>

----------------------------------------------------------------------------
(* The handlers of the Students page                                       *)

\* newStudentData and editStudentData, as the form fields leave them

Form(f, l, p) == [firstName |-> f, lastName |-> l, phone |-> p]

Forms ==
    {Form(<<"A">>, <<"B">>, <<"5">>), Form(<<>>, <<"B">>, <<"5">>),
     Form(<<"A">>, <<>>, <<"5">>), Form(<<"A">>, <<"B">>, <<>>)}

\* importPreview: the results of parseCSVText on a file of two good lines, of
\* a good line and one without a phone, of one line without a first name, and
\* on a file without data lines
ImportRows ==
    { <<CellsRow(CellAl, CellBo, CellPhone, 0), CellsRow(CellAl, CellBo, CellPhone, 0)>>,
      <<CellsRow(CellAl, CellBo, CellPhone, 0), CellsRow(CellAl, CellBo, <<>>, 0)>>,
      <<CellsRow(<<>>, CellBo, CellPhone, 0)>>,
      <<>> }

ImportPreviews == {ParseCSVText(RenderText(CanonicalLayout, rows)) : rows \in ImportRows}

\* if (newStudentData.firstName && newStudentData.lastName && newStudentData.phone)
MutFilledWithoutPhone(form) == form.firstName # <<>> /\ form.lastName # <<>>

Filled(form) == form.firstName # <<>> /\ form.lastName # <<>> /\ form.phone # <<>>

HandleAddStudent(form) ==
    /\ Rendered
    /\ IF Filled(form)
       THEN AddStudent(form)
       ELSE UNCHANGED <<store, students, loading, error, refreshTimeoutId, timers, ops, today>>
    /\ UNCHANGED others

\* the toggle of a student that the page shows
HandleStatusToggle(n) ==
    /\ Rendered
    /\ n \in 1..Len(students)
    /\ UpdateStudent(students[n].id,
                     PartialStudent(None, None, None,
                                    Some(IF students[n].status = "active"
                                         THEN "inactive" ELSE "active")))
    /\ UNCHANGED others

\* the delete button of a student that the page shows, confirmed or not
HandleDeleteStudent(n) ==
    /\ Rendered
    /\ n \in 1..Len(students)
    /\ \E confirmed \in BOOLEAN :
          IF confirmed
          THEN DeleteStudent(students[n].id)
          ELSE UNCHANGED <<store, students, loading, error, refreshTimeoutId, timers, ops, today>>
    /\ UNCHANGED others

\* handleEditStudent of a student that the page shows, the edits of the form,
\* and handleUpdateStudent
HandleUpdateStudent(n, form) ==
    /\ Rendered
    /\ n \in 1..Len(students)
    /\ IF Filled(form)
       THEN UpdateStudent(students[n].id,
                          PartialStudent(Some(form.firstName), Some(form.lastName),
                                         Some(form.phone), None))
       ELSE UNCHANGED <<store, students, loading, error, refreshTimeoutId, timers, ops, today>>
    /\ UNCHANGED others

\* if (!importPreview?.data || importPreview.data.length === 0) { alert; return }
HandleConfirmImport(preview) ==
    /\ Rendered
    /\ IF preview.data = None \/ Len(preview.data[1]) = 0
       THEN UNCHANGED <<store, students, loading, error, refreshTimeoutId, timers, ops, today>>
       ELSE ImportStudents(preview.data[1])
    /\ UNCHANGED others

\* a consumer of the context calls fetchStudents(): if (!user) return
CallFetchStudents ==
    /\ Rendered
    /\ IF user = None
       THEN /\ Len(ops) < MaxOps
            /\ ops' = Append(ops, Ended("fetch", <<>>, "returned"))
            /\ UNCHANGED <<store, students, loading, error, refreshTimeoutId, timers, today>>
       ELSE FetchStudents(user[1])
    /\ UNCHANGED others

\* the component renders the new refreshTimeoutId: the cleanup of the effect
\* on [refreshTimeoutId] clears the timeout of the value it replaces
Rerender ==
    /\ mounted
    /\ rendered # refreshTimeoutId
    /\ timers' = {t \in timers : t.id # rendered}
    /\ rendered' = refreshTimeoutId
    /\ UNCHANGED <<user, store, students, loading, error, refreshTimeoutId, ops, today,
                   userChanges, mounted, outerVars>>

\* the provider is unmounted: the cleanup of the effect clears its timeout
Unmount ==
    /\ mounted
    /\ mounted' = FALSE
    /\ timers' = {t \in timers : t.id # rendered}
    /\ UNCHANGED <<user, store, students, loading, error, refreshTimeoutId, ops, today,
                   userChanges, rendered, outerVars>>

NextStudents ==
    \/ CallFetchStudents
    \/ Rerender
    \/ Unmount
    \/ \E next \in {None} \cup {Some(u) : u \in Users} : UserChanges(next)
    \/ Tick
    \/ \E t \in timers : TimerFires(t)
    \/ \E form \in Forms : HandleAddStudent(form)
    \/ \E n \in 1..Len(students) : HandleStatusToggle(n)
    \/ \E n \in 1..Len(students) : HandleDeleteStudent(n)
    \/ \E n \in 1..Len(students) : \E form \in Forms : HandleUpdateStudent(n, form)
    \/ \E preview \in ImportPreviews : HandleConfirmImport(preview)
    \/ \E k \in 1..MaxOps : RemoteInsert(k)
    \/ \E k \in 1..MaxOps : RemoteUpdate(k)
    \/ \E k \in 1..MaxOps : RemoteDelete(k)
    \/ \E k \in 1..MaxOps : RemoteSelect(k)
    \/ \E k \in 1..MaxOps : FetchSettles(k)
    \/ \E k \in 1..MaxOps : AddSettles(k)
    \/ \E k \in 1..MaxOps : UpdateSettles(k)
    \/ \E k \in 1..MaxOps : DeleteSettles(k)
    \/ \E k \in 1..MaxOps : ImportInsertSettles(k)
    \/ \E k \in 1..MaxOps : ImportFetchSettles(k)

SpecStudents == InitStudents /\ [][NextStudents]_vars

----------------------------------------------------------------------------
(* Claims about the students context and the Students page, under          *)
(* SpecStudents                                                            *)

St_InFlight == {k \in 1..Len(ops) : ops[k].phase # "done"}

\* C17: student records are scoped to the signed-in user: every request in
\* flight is filtered by, and every insert carries, the id of the user of the
\* call, and in every reachable state the local students list holds only
\* records of the current user and is empty when no user is signed in, also
\* when the user signs out or changes while a fetch is in flight.
C17_Scoped ==
    /\ \A k \in St_InFlight :
          ops[k].phase = "remote" /\ ops[k].kind \in {"add", "import"}
             => ops[k].payload.userId = ops[k].user
    /\ user = None => students = <<>>
    /\ user # None => \A n \in 1..Len(students) : students[n].userId = user[1]

St_NonEmpty(r) == r.firstName # <<>> /\ r.lastName # <<>> /\ r.phone # <<>>

St_Created(r) == r.id[1] > 0

\* C18: whatever is done through the page (add, import, edit, toggle), every
\* row of the store has a non-empty first name, last name and phone; the
\* inserts in flight carry three non-empty values and the updates in flight
\* carry no empty value.
C18_NonEmptyPersisted ==
    /\ \A n \in 1..Len(store) : St_NonEmpty(store[n])
    /\ \A k \in St_InFlight :
          /\ ops[k].phase = "remote" /\ ops[k].kind \in {"add", "import"}
                => St_NonEmpty(ops[k].payload)
          /\ ops[k].phase = "remote" /\ ops[k].kind = "update"
                => /\ ops[k].payload.firstName # Some(<<>>)
                   /\ ops[k].payload.lastName # Some(<<>>)
                   /\ ops[k].payload.phone # Some(<<>>)
          /\ ops[k].kind = "import"
                => \A n \in 1..Len(ops[k].entries) : St_NonEmpty(ops[k].entries[n])

\* a row that an edit has rewritten, next to a row that an add or an import
\* has created
C18_Witness ==
    /\ \E n \in 1..Len(store) : ~St_Created(store[n]) /\ store[n].firstName = <<"A">>
    /\ \E n \in 1..Len(store) : St_Created(store[n])

\* the insert that call k issues in this step
St_Issues(k) ==
    /\ k \in 1..Len(ops')
    /\ ops'[k].kind \in {"add", "import"}
    /\ ops'[k].phase = "remote"
    /\ k \in 1..Len(ops) => ops[k].phase = "answered"

\* the remote side runs the request of call k in this step
St_Runs(k) ==
    /\ k \in 1..Len(ops)
    /\ ops[k].phase = "remote"
    /\ ops'[k].phase = "answered"

C19_Step ==
    /\ \A k \in 1..MaxOps :
          St_Issues(k) =>
             /\ ops'[k].payload.status = "active"
             /\ ops'[k].payload.enrollmentDate = today
             /\ ops'[k].payload.userId = ops'[k].user
             /\ k \notin 1..Len(ops) => user = Some(ops'[k].user)
    /\ \A k \in 1..MaxOps :
          St_Runs(k) /\ ops[k].kind \in {"add", "import"} =>
             \/ store' = store
             \/ /\ Len(store') = Len(store) + 1
                /\ SubSeq(store', 1, Len(store)) = store
                /\ LET r == store'[Len(store')] IN
                      /\ r.status = "active"
                      /\ r.enrollmentDate = ops[k].payload.enrollmentDate
                      /\ r.userId = ops[k].payload.userId
                      /\ \A n \in 1..Len(store) : store[n].id # r.id
    /\ \A n \in 1..Len(store) : \A m \in 1..Len(store') :
          store[n].id = store'[m].id /\ store[n].status # store'[m].status
             => \E k \in 1..MaxOps :
                   St_Runs(k) /\ ops[k].kind = "update" /\ ops[k].target = store[n].id
    /\ Len(store') > Len(store)
          => \E k \in 1..MaxOps : St_Runs(k) /\ ops[k].kind \in {"add", "import"}

\* C19: every record created by addStudent or by importStudents is inserted
\* with status 'active', with the date of the day on which its insert is
\* issued as enrollment date, and with the id of the user who made the call;
\* no step creates a row in another way, and the status of a row changes only
\* when the remote side runs an update of that row.
C19_CreatedActive == [][C19_Step]_vars

\* a record created on the second day that a later toggle has made inactive
C19_Witness ==
    \E n \in 1..Len(store) :
        /\ St_Created(store[n])
        /\ store[n].enrollmentDate = MaxDay
        /\ store[n].status = "inactive"

\* the call k goes on after the answer of its remote call and ends
St_Settles(k) ==
    /\ k \in 1..Len(ops)
    /\ ops[k].phase \in {"answered", "fetchAnswered"}
    /\ ops'[k].phase = "done"

C21_Step ==
    \A k \in 1..MaxOps :
        St_Settles(k) /\ mounted /\ ops[k].kind \in {"add", "update", "delete"} =>
           IF ops[k].answer.ok
           THEN /\ ops'[k].outcome = "returned"
                /\ ops[k].kind = "add" =>
                      /\ Len(students') = Len(students) + 1
                      /\ Head(students') = ops[k].answer.rows[1]
                      /\ Tail(students') = students
                /\ ops[k].kind = "update" =>
                      /\ Len(students') = Len(students)
                      /\ \A n \in 1..Len(students) :
                            students'[n] = IF students[n].id = ops[k].target
                                           THEN ops[k].answer.rows[1] ELSE students[n]
                /\ ops[k].kind = "delete" =>
                      students' = SelectSeq(students, LAMBDA r : r.id # ops[k].target)
           ELSE /\ students' = students
                /\ error' = Some(RemoteMessage)
                /\ ops'[k].outcome = "threw"

\* C21: after a successful remote add the list is the old list with the new
\* record in front; after a successful update only the records with the
\* given id are replaced, the others and the order stay; after a successful
\* delete only the records with the given id are gone; when the remote call
\* failed the list is the same, the message is stored and the call throws.
C21_LocalEffects == [][C21_Step]_vars

\* an add has put its record in front of the list, and another call has
\* thrown and left its message
C21_Witness ==
    /\ mounted
    /\ \E k \in 1..Len(ops) :
          /\ ops[k].kind = "add" /\ ops[k].outcome = "returned"
          /\ Len(students) > 1
          /\ students[1].id = NewId(k, 1)
    /\ \E k \in 1..Len(ops) :
          ops[k].kind \in {"update", "delete"} /\ ops[k].outcome = "threw"
    /\ error = Some(RemoteMessage)

St_Import(k) == ops[k].kind = "import" /\ ops[k].outcome # "threw"

C26_Counts ==
    \A k \in 1..Len(ops) :
        St_Import(k) =>
           LET op == ops[k]
               n == Len(op.entries)
           IN /\ op.successCount + op.failedCount = op.k
              /\ Len(op.errors) = op.failedCount
              /\ op.k <= n
              /\ op.phase \in {"remote", "answered"} => op.k < n
              /\ op.phase = "remote" =>
                    /\ op.payload.firstName = op.entries[op.k + 1].firstName
                    /\ op.payload.lastName = op.entries[op.k + 1].lastName
                    /\ op.payload.phone = op.entries[op.k + 1].phone
              /\ op.phase \in {"fetchRemote", "fetchAnswered", "done"} => op.k = n
              /\ op.phase = "done" => op.outcome = "returned"

C26_Step ==
    \A k \in 1..Len(ops) :
        St_Import(k) /\ ops'[k] # ops[k] =>
           LET op == ops[k]
               next == ops'[k]
               n == Len(op.entries)
           IN /\ next.entries = op.entries
              /\ op.phase = "remote" =>
                    next.phase = "answered" /\ next.k = op.k
              /\ op.phase = "answered" =>
                    /\ next.k = op.k + 1
                    /\ next.successCount = op.successCount + (IF op.answer.ok THEN 1 ELSE 0)
                    /\ next.failedCount = op.failedCount + (IF op.answer.ok THEN 0 ELSE 1)
                    /\ next.phase = IF next.k < n THEN "remote" ELSE "fetchRemote"
              /\ op.phase = "fetchRemote" =>
                    next.phase = "fetchAnswered" /\ store' = store
              /\ op.phase = "fetchAnswered" =>
                    /\ next.phase = "done"
                    /\ next.successCount = op.successCount
                    /\ next.failedCount = op.failedCount
                    /\ next.errors = op.errors
                    /\ mounted => ~loading'

\* C26: for a signed-in user and a list of n entries, importStudents makes
\* one insert per entry in the order of the list, goes on after an insert
\* that failed, counts success + failed = n with one error string per failed
\* entry, fetches the list once after the last insert, and leaves loading
\* false when it returns.
C26_ImportCounts == [][C26_Step]_vars /\ []C26_Counts

\* an import of two entries has returned: its first insert failed, its
\* second one was made all the same and succeeded
C26_Witness ==
    \E k \in 1..Len(ops) :
        /\ ops[k].kind = "import" /\ ops[k].phase = "done"
        /\ Len(ops[k].entries) = 2
        /\ ops[k].successCount = 1 /\ ops[k].failedCount = 1
        /\ Len(ops[k].errors) = 1
        /\ \E n \in 1..Len(store) : store[n].id = NewId(k, 2)
        /\ \A n \in 1..Len(store) : store[n].id # NewId(k, 1)
        /\ mounted /\ ~loading

\* a call begins in this step that is neither the callback of a timeout nor
\* made by the effect on [user]
St_Called == Len(ops') = Len(ops) + 1 /\ timers' = timers /\ user' = user

C27_Step ==
    St_Called /\ user = None =>
       LET op == ops'[Len(ops')] IN
       /\ op.phase = "done"
       /\ store' = store /\ students' = students /\ loading' = loading
       /\ op.kind \in {"add", "update", "delete"} =>
             error' = Some(NotAuthenticated) /\ op.outcome = "returned"
       /\ op.kind = "fetch" => error' = error /\ op.outcome = "returned"
       /\ op.kind = "import" => error' = error /\ op.outcome = "threw"

\* C27: with no signed-in user, addStudent, updateStudent and deleteStudent
\* make no remote call, leave the list, set error to 'User not
\* authenticated' and return; fetchStudents does nothing; importStudents
\* throws before any insert and leaves loading and the list.
C27_NoUser == [][C27_Step]_vars

\* without a user, an add has returned with the error set and an import has
\* thrown
C27_Witness ==
    /\ user = None
    /\ error = Some(NotAuthenticated)
    /\ \E k \in 1..Len(ops) :
          ops[k].kind = "add" /\ ops[k].phase = "done" /\ ops[k].outcome = "returned"
    /\ \E k \in 1..Len(ops) : ops[k].kind = "import" /\ ops[k].outcome = "threw"
    /\ store # <<>>

\* C28: the auto-refresh is debounced: at most one timeout of the
\* auto-refresh is pending at any time, also when several calls end before
\* the component renders again, and none is left to fire once the provider
\* is unmounted.
C28_Debounced ==
    /\ Cardinality(timers) <= 1
    /\ ~mounted => timers = {}

St_Quiescent ==
    /\ mounted
    /\ Rendered
    /\ timers = {}
    /\ error = None
    /\ ops # <<>>
    /\ \A k \in 1..Len(ops) :
          /\ ops[k].phase = "done"
          /\ ops[k].outcome = "returned"
          /\ ops[k].answer.ok
          /\ ops[k].failedCount = 0

\* C29: when a user who stays signed in has added, updated, deleted or
\* imported, and every remote call and the auto-refresh have ended without
\* an error, the local list is the rows of the store for that user, in
\* whatever order the answers arrived.
C29_Consistent ==
    St_Quiescent /\ user # None /\ userChanges = 0
       => students = SelectRows(store, user[1])

\* C30: loading is true whenever a call of fetchStudents, addStudent,
\* updateStudent, deleteStudent or importStudents is in flight, and false
\* when none is.
C30_Loading == mounted => (loading <=> St_InFlight # {})

====
